---- MODULE Spec2Model ----
(***************************************************************************)
(* A model of the human-activity-recognition service of the NYRA app:      *)
(* harModelService.js (src/unnamed/part_010) and the sensor feed it        *)
(* subscribes to, sensorService.js (src/unnamed/part_011).                 *)
(*                                                                         *)
(* Numbers.  The source computes in floating point; the model computes the *)
(* same quantities exactly, in fixed point:                                *)
(*   - thresholds are in thousandths (0.5 is 500);                         *)
(*   - a movement score (totalMovement, the entries of movementHistory) is *)
(*     in units of 1/625000, the unit in which the score of a window of    *)
(*     25 integer magnitudes is an integer;                                *)
(*   - a confidence is in hundredths, as an integer part and a fraction;   *)
(*   - the sensitivity is in tenths (0.5 is 5);                            *)
(*   - the clock is in milliseconds.                                       *)
(***************************************************************************)
EXTENDS Integers, Sequences, FiniteSets, TLC

(***************************************************************************)
(* Program constants.                                                      *)
(***************************************************************************)
SENSOR_DATA_BUFFER_SIZE == 25
\* in thousandths
BASE_MOVEMENT_THRESHOLD_IDLE == 500
BASE_MOVEMENT_THRESHOLD_STANDING == 2000
BASE_MOVEMENT_THRESHOLD_WALKING == 8000
BASE_MOVEMENT_THRESHOLD_RUNNING == 20000
\* movementHistory keeps this many scores
MOVEMENT_HISTORY_SIZE == 100
\* a sudden stop needs this many scores and this many high-movement ticks
MIN_HISTORY == 50
MIN_HIGH_MOVEMENT == 50
\* the walking session starts after this many high-movement ticks
WALKING_SESSION_TICKS == 30
\* the still-reading reset happens after this many IDLE ticks
STILL_RESET_TICKS == 30
\* the cooldown between two sudden stops, in ms
COOLDOWN_MS == 30000
\* the sensor feed's period, in ms
UPDATE_INTERVAL_MS == 100
\* thousandths of a threshold in one movement unit: 625000 / 1000
THRESHOLD_TO_MOVEMENT == 625

(***************************************************************************)
(* Sequences of numbers.                                                   *)
(***************************************************************************)
RECURSIVE SumSeq(_)
SumSeq(s) == IF s = <<>> THEN 0 ELSE Head(s) + SumSeq(Tail(s))

Abs(x) == IF x < 0 THEN -x ELSE x

\* Array.prototype.slice(from, to) with the negative indices the source uses:
\* the elements from the from-th last to, not including, the to-th last
\* (to = 0 stands for slice(-from)).
SliceFromEnd(s, from, to) ==
  LET n == Len(s)
      lo == IF n - from < 0 THEN 0 ELSE n - from
      hi == IF n - to < 0 THEN 0 ELSE n - to
  IN  IF hi <= lo THEN <<>> ELSE SubSeq(s, lo + 1, hi)

(***************************************************************************)
(* Sensor values.  A field of a sample is a finite number, or one of the   *)
(* values isFinite / typeof reject.                                        *)
(***************************************************************************)
Num(v) == [t |-> "number", v |-> v]
NaN == [t |-> "NaN", v |-> 0]
PosInfinity == [t |-> "Infinity", v |-> 0]
NegInfinity == [t |-> "-Infinity", v |-> 0]
Undefined == [t |-> "undefined", v |-> 0]
AString == [t |-> "string", v |-> 0]

\* typeof x === 'number' alone
IsTypeofNumber(x) == x.t \in {"number", "NaN", "Infinity", "-Infinity"}
\* typeof x === 'number' && isFinite(x)
IsFiniteNumber(x) == x.t = "number"

\* a sample object { ax, ay, az, gx, gy, gz }
SampleObject(ax, ay, az, gx, gy, gz) ==
  [obj |-> TRUE, ax |-> ax, ay |-> ay, az |-> az, gx |-> gx, gy |-> gy, gz |-> gz]
\* null, undefined, a number, a string: not an object
NotAnObject ==
  [obj |-> FALSE, ax |-> Undefined, ay |-> Undefined, az |-> Undefined,
   gx |-> Undefined, gy |-> Undefined, gz |-> Undefined]

requiredFields == <<"ax", "ay", "az", "gx", "gy", "gz">>

\* predictActivity's validation: the sample is an object and every required
\* field is a finite number
IsValidSample(sensorData) ==
  /\ sensorData.obj
  /\ \A i \in 1..Len(requiredFields) : IsFiniteNumber(sensorData[requiredFields[i]])

(***************************************************************************)
(* Metrics.                                                                *)
(***************************************************************************)
\* Math.sqrt on the perfect squares the feed produces
Sqrt(n) == CHOOSE r \in 0..n : r * r = n

calculateMagnitude(x, y, z) ==
  LET validX == IF IsFiniteNumber(x) THEN x.v ELSE 0
      validY == IF IsFiniteNumber(y) THEN y.v ELSE 0
      validZ == IF IsFiniteNumber(z) THEN z.v ELSE 0
  IN  Sqrt(validX * validX + validY * validY + validZ * validZ)

\* _calculateVariance(arr), times Len(arr)^2: with n = Len(arr) and S the sum,
\* sum((b - S/n)^2)/n = (n * sum(b^2) - S^2) / n^2
SumOfSquares(arr) == SumSeq([i \in 1..Len(arr) |-> arr[i] * arr[i]])
VarianceOf(n, sum, sumOfSquares) == n * sumOfSquares - sum * sum
calculateVariance(arr) ==
  IF Len(arr) < 2 THEN 0 ELSE VarianceOf(Len(arr), SumSeq(arr), SumOfSquares(arr))

accelMagnitudes(buffer) ==
  [i \in 1..Len(buffer) |-> calculateMagnitude(buffer[i].ax, buffer[i].ay, buffer[i].az)]
gyroMagnitudes(buffer) ==
  [i \in 1..Len(buffer) |-> calculateMagnitude(buffer[i].gx, buffer[i].gy, buffer[i].gz)]

\* accelWithoutGravity, times n = Len(magnitudes): |mag - mean| = |n*mag - S| / n
RemoveMean(magnitudes, S) ==
  [i \in 1..Len(magnitudes) |-> Abs(Len(magnitudes) * magnitudes[i] - S)]
accelWithoutGravity(magnitudes) == RemoveMean(magnitudes, SumSeq(magnitudes))

\* the score with the weights 0.15 and 0.85
TotalMovementNormalised(buffer) ==
  ((15 * 8 * calculateVariance(accelWithoutGravity(accelMagnitudes(buffer)))) \div 5
     + 85 * 1000 * calculateVariance(gyroMagnitudes(buffer))) \div 100

\* totalMovement = accelVariance * 15 + gyroVariance * 85 for a full window
\* (n = 25), in units of 1/625000: with A = calculateVariance(accelWithoutGravity)
\* and G = calculateVariance(gyroMagnitudes), accelVariance = A / 25^4 and
\* gyroVariance = G / 25^2, so that
\*   625000 * totalMovement = 15 * (8 * A / 5) + 85 * (1000 * G)
TotalMovement(buffer) ==
  (15 * 8 * calculateVariance(accelWithoutGravity(accelMagnitudes(buffer)))) \div 5
    + 85 * 1000 * calculateVariance(gyroMagnitudes(buffer))

(***************************************************************************)
(* Thresholds, scaled by the sensitivity (in tenths).                      *)
(***************************************************************************)
\* the detectionSensitivity of settings that have none: loadSettings()
\* returns defaultSettings, which has no such field, until a sensitivity is
\* saved (part_007, lines 34-39 and 51-56).  With it the modifier 1 - undefined
\* and the four thresholds are NaN
NoSensitivity == 0 - 1

\* base * (1 + modifier * k), with modifier = 1 - sensitivity and k in tenths;
\* the result is in movement units
\* the scaling with modifier = sensitivity
ScaledThresholdRising(base, k, sensitivity) ==
  LET modifier == sensitivity
  IN  THRESHOLD_TO_MOVEMENT * ((base * (100 + modifier * k)) \div 100)

ScaledThreshold(base, k, sensitivity) ==
  LET modifier == 10 - sensitivity
  IN  THRESHOLD_TO_MOVEMENT * ((base * (100 + modifier * k)) \div 100)

MOVEMENT_THRESHOLD_IDLE(sensitivity) ==
  ScaledThreshold(BASE_MOVEMENT_THRESHOLD_IDLE, 6, sensitivity)
MOVEMENT_THRESHOLD_STANDING(sensitivity) ==
  ScaledThreshold(BASE_MOVEMENT_THRESHOLD_STANDING, 6, sensitivity)
MOVEMENT_THRESHOLD_WALKING(sensitivity) ==
  ScaledThreshold(BASE_MOVEMENT_THRESHOLD_WALKING, 4, sensitivity)
MOVEMENT_THRESHOLD_RUNNING(sensitivity) ==
  ScaledThreshold(BASE_MOVEMENT_THRESHOLD_RUNNING, 3, sensitivity)

(***************************************************************************)
(* Confidence.  A confidence is kept exactly, in hundredths, as i + n/d    *)
(* with 0 <= n < d; toFixed(2) rounds it to an integer number of           *)
(* hundredths.                                                             *)
(***************************************************************************)
Rational(i, n, d) == [i |-> i + (n \div d), n |-> n % d, d |-> d]

\* Math.min(c, x) and Math.max(c, x) for an integer number c of hundredths
MathMin(c, x) == IF x.i >= c THEN [i |-> c, n |-> 0, d |-> 1] ELSE x
MathMax(c, x) == IF x.i < c THEN [i |-> c, n |-> 0, d |-> 1] ELSE x
\* x - c/100
Minus(x, c) == [x EXCEPT !.i = x.i - c]
\* parseFloat(x.toFixed(2)): the nearest hundredth, a tie rounded up
ToFixed2(x) == IF 2 * x.n >= x.d THEN x.i + 1 ELSE x.i

(***************************************************************************)
(* Activity classification: the raw activity and confidence of a movement  *)
(* score at a sensitivity (part_010, lines 216-245).                       *)
(***************************************************************************)
\* the classification with a WALKING confidence that falls from 0.92 as the
\* score rises
ClassifyFallingWalking(validTotalMovement, sensitivity) ==
  LET I == MOVEMENT_THRESHOLD_IDLE(sensitivity)
      S == MOVEMENT_THRESHOLD_STANDING(sensitivity)
      W == MOVEMENT_THRESHOLD_WALKING(sensitivity)
      R == MOVEMENT_THRESHOLD_RUNNING(sensitivity)
      T == validTotalMovement
  IN  IF T > R THEN
        [activity |-> "RUNNING",
         confidence |-> IF T - R >= R THEN MathMin(95, Rational(95, 0, 1))
                        ELSE MathMin(95, Rational(75, 20 * (T - R), R))]
      ELSE IF T > W THEN
        [activity |-> "WALKING",
         confidence |-> MathMin(92, IF R - W > 0 THEN Rational(92, -27 * (T - W), R - W)
                                    ELSE Rational(65, 0, 1))]
      ELSE IF T > S THEN
        [activity |-> "STANDING",
         confidence |-> MathMin(88, IF W - S > 0 THEN Rational(55, 33 * (T - S), W - S)
                                    ELSE Rational(55, 0, 1))]
      ELSE IF T > I THEN
        [activity |-> "STANDING",
         confidence |-> MathMin(82, IF S - I > 0 THEN Rational(45, 37 * (T - I), S - I)
                                    ELSE Rational(45, 0, 1))]
      ELSE
        [activity |-> "IDLE",
         confidence |-> MathMax(70, IF I > 0 THEN Rational(95, -25 * T, I)
                                    ELSE Rational(95, 0, 1))]

\* the classification without the cap of the RUNNING confidence at 0.95
ClassifyUncapped(validTotalMovement, sensitivity) ==
  LET I == MOVEMENT_THRESHOLD_IDLE(sensitivity)
      S == MOVEMENT_THRESHOLD_STANDING(sensitivity)
      W == MOVEMENT_THRESHOLD_WALKING(sensitivity)
      R == MOVEMENT_THRESHOLD_RUNNING(sensitivity)
      T == validTotalMovement
  IN  IF T > R THEN
        [activity |-> "RUNNING", confidence |-> Rational(75, 20 * (T - R), R)]
      ELSE IF T > W THEN
        [activity |-> "WALKING",
         confidence |-> MathMin(92, IF R - W > 0 THEN Rational(65, 27 * (T - W), R - W)
                                    ELSE Rational(65, 0, 1))]
      ELSE IF T > S THEN
        [activity |-> "STANDING",
         confidence |-> MathMin(88, IF W - S > 0 THEN Rational(55, 33 * (T - S), W - S)
                                    ELSE Rational(55, 0, 1))]
      ELSE IF T > I THEN
        [activity |-> "STANDING",
         confidence |-> MathMin(82, IF S - I > 0 THEN Rational(45, 37 * (T - I), S - I)
                                    ELSE Rational(45, 0, 1))]
      ELSE
        [activity |-> "IDLE",
         confidence |-> MathMax(70, IF I > 0 THEN Rational(95, -25 * T, I)
                                    ELSE Rational(95, 0, 1))]

\* the classification with a score at the walking threshold taken as WALKING
ClassifyInclusive(validTotalMovement, sensitivity) ==
  LET I == MOVEMENT_THRESHOLD_IDLE(sensitivity)
      S == MOVEMENT_THRESHOLD_STANDING(sensitivity)
      W == MOVEMENT_THRESHOLD_WALKING(sensitivity)
      R == MOVEMENT_THRESHOLD_RUNNING(sensitivity)
      T == validTotalMovement
  IN  IF T > R THEN
        \* 0.75 + (excessMovement / R) * 0.2, at most 0.95
        [activity |-> "RUNNING",
         confidence |-> IF T - R >= R THEN MathMin(95, Rational(95, 0, 1))
                        ELSE MathMin(95, Rational(75, 20 * (T - R), R))]
      ELSE IF T >= W THEN
        [activity |-> "WALKING",
         confidence |-> MathMin(92, IF R - W > 0 THEN Rational(65, 27 * (T - W), R - W)
                                    ELSE Rational(65, 0, 1))]
      ELSE IF T > S THEN
        [activity |-> "STANDING",
         confidence |-> MathMin(88, IF W - S > 0 THEN Rational(55, 33 * (T - S), W - S)
                                    ELSE Rational(55, 0, 1))]
      ELSE IF T > I THEN
        [activity |-> "STANDING",
         confidence |-> MathMin(82, IF S - I > 0 THEN Rational(45, 37 * (T - I), S - I)
                                    ELSE Rational(45, 0, 1))]
      ELSE
        \* idleRatio = min(1, T / I); 0.95 - idleRatio * 0.25, at least 0.7
        [activity |-> "IDLE",
         confidence |-> MathMax(70, IF I > 0 THEN Rational(95, -25 * T, I)
                                    ELSE Rational(95, 0, 1))]

Classify(validTotalMovement, sensitivity) ==
  LET I == MOVEMENT_THRESHOLD_IDLE(sensitivity)
      S == MOVEMENT_THRESHOLD_STANDING(sensitivity)
      W == MOVEMENT_THRESHOLD_WALKING(sensitivity)
      R == MOVEMENT_THRESHOLD_RUNNING(sensitivity)
      T == validTotalMovement
  IN  IF sensitivity = NoSensitivity THEN
        \* every comparison with a NaN threshold is false; the ratio is 0
        [activity |-> "IDLE", confidence |-> MathMax(70, Rational(95, 0, 1))]
      ELSE IF T > R THEN
        \* 0.75 + (excessMovement / R) * 0.2, at most 0.95
        [activity |-> "RUNNING",
         confidence |-> IF T - R >= R THEN MathMin(95, Rational(95, 0, 1))
                        ELSE MathMin(95, Rational(75, 20 * (T - R), R))]
      ELSE IF T > W THEN
        [activity |-> "WALKING",
         confidence |-> MathMin(92, IF R - W > 0 THEN Rational(65, 27 * (T - W), R - W)
                                    ELSE Rational(65, 0, 1))]
      ELSE IF T > S THEN
        [activity |-> "STANDING",
         confidence |-> MathMin(88, IF W - S > 0 THEN Rational(55, 33 * (T - S), W - S)
                                    ELSE Rational(55, 0, 1))]
      ELSE IF T > I THEN
        [activity |-> "STANDING",
         confidence |-> MathMin(82, IF S - I > 0 THEN Rational(45, 37 * (T - I), S - I)
                                    ELSE Rational(45, 0, 1))]
      ELSE
        \* idleRatio = min(1, T / I); 0.95 - idleRatio * 0.25, at least 0.7
        [activity |-> "IDLE",
         confidence |-> MathMax(70, IF I > 0 THEN Rational(95, -25 * T, I)
                                    ELSE Rational(95, 0, 1))]

(***************************************************************************)
(* Activity smoothing (part_010, lines 247-269): what is published and the *)
(* new lastActivity and activityChangeCount.                               *)
(***************************************************************************)
\* the rules with IDLE <-> STANDING held back for one tick only
needsSmoothingShort(last, activity, changeCount) ==
  \/ (last = "IDLE" /\ activity = "STANDING" /\ changeCount < 2)
  \/ (last = "STANDING" /\ activity = "IDLE" /\ changeCount < 2)
  \/ (last = "STANDING" /\ activity = "WALKING" /\ changeCount < 2)
  \/ (last = "WALKING" /\ activity = "STANDING" /\ changeCount < 2)

\* the rules with STANDING <-> WALKING held back for two ticks
needsSmoothingLong(last, activity, changeCount) ==
  \/ (last = "IDLE" /\ activity = "STANDING" /\ changeCount < 3)
  \/ (last = "STANDING" /\ activity = "IDLE" /\ changeCount < 3)
  \/ (last = "STANDING" /\ activity = "WALKING" /\ changeCount < 3)
  \/ (last = "WALKING" /\ activity = "STANDING" /\ changeCount < 3)

needsSmoothing(last, activity, changeCount) ==
  \/ (last = "IDLE" /\ activity = "STANDING" /\ changeCount < 3)
  \/ (last = "STANDING" /\ activity = "IDLE" /\ changeCount < 3)
  \/ (last = "STANDING" /\ activity = "WALKING" /\ changeCount < 2)
  \/ (last = "WALKING" /\ activity = "STANDING" /\ changeCount < 2)

\* the smoothing with confidence - 0.2 on a suppressed tick
SmoothReducingLess(raw, last, changeCount) ==
  IF raw.activity # last THEN
    IF needsSmoothing(last, raw.activity, changeCount + 1) THEN
      [activity |-> last, confidence |-> MathMax(30, Minus(raw.confidence, 20)),
       lastActivity |-> last, activityChangeCount |-> changeCount + 1]
    ELSE
      [activity |-> raw.activity, confidence |-> raw.confidence,
       lastActivity |-> raw.activity, activityChangeCount |-> 0]
  ELSE
    [activity |-> raw.activity, confidence |-> raw.confidence,
     lastActivity |-> last, activityChangeCount |-> 0]

Smooth(raw, last, changeCount) ==
  IF raw.activity # last THEN
    IF needsSmoothing(last, raw.activity, changeCount + 1) THEN
      [activity |-> last, confidence |-> MathMax(30, Minus(raw.confidence, 30)),
       lastActivity |-> last, activityChangeCount |-> changeCount + 1]
    ELSE
      [activity |-> raw.activity, confidence |-> raw.confidence,
       lastActivity |-> raw.activity, activityChangeCount |-> 0]
  ELSE
    [activity |-> raw.activity, confidence |-> raw.confidence,
     lastActivity |-> last, activityChangeCount |-> 0]

(***************************************************************************)
(* Sudden-stop detection (part_010, lines 299-334).                        *)
(***************************************************************************)
\* the guard of the outer if, asking for a full history of 100 scores
SuddenStopArmedFullHistory(history, sessionActive, highDuration, timeSinceLastTrigger) ==
  /\ Len(history) >= MOVEMENT_HISTORY_SIZE
  /\ sessionActive
  /\ highDuration >= MIN_HIGH_MOVEMENT
  /\ timeSinceLastTrigger > COOLDOWN_MS

\* the guard of the outer if, content with a walk of 30 ticks
SuddenStopArmedShortWalk(history, sessionActive, highDuration, timeSinceLastTrigger) ==
  /\ Len(history) >= MIN_HISTORY
  /\ sessionActive
  /\ highDuration >= WALKING_SESSION_TICKS
  /\ timeSinceLastTrigger > COOLDOWN_MS

\* the guard of the outer if
SuddenStopArmed(history, sessionActive, highDuration, timeSinceLastTrigger) ==
  /\ Len(history) >= MIN_HISTORY
  /\ sessionActive
  /\ highDuration >= MIN_HIGH_MOVEMENT
  /\ timeSinceLastTrigger > COOLDOWN_MS

\* the sums of the three windows; the averages are sumRecent / 3,
\* sumPrevious / 10 and sumLongTerm / 30
sumRecent(history) == SumSeq(SliceFromEnd(history, 3, 0))
sumPrevious(history) == SumSeq(SliceFromEnd(history, 20, 10))
sumLongTerm(history) == SumSeq(SliceFromEnd(history, 50, 20))

\* movementDrop > 0.9, with movementDrop = (avgPrevious - avgRecent) / avgPrevious:
\* for avgPrevious > 0 this is avgRecent < avgPrevious / 10, that is
\* 100 * recent < 3 * previous for the sums; for avgPrevious = 0 the quotient
\* is NaN or -Infinity and the comparison is false
MovementDropAbove90(recent, previous) ==
  /\ previous > 0
  /\ recent <= (3 * previous - 1) \div 100

\* avgPrevious > 0
PreviousAboveZero(previous, sensitivity) == previous > 0

\* avgPrevious > MOVEMENT_THRESHOLD_RUNNING * 0.8
PreviousRunningLevel(previous, sensitivity) ==
  previous > 8 * MOVEMENT_THRESHOLD_RUNNING(sensitivity)

\* avgLongTerm > W * 1.5 and avgPrevious > W * 1.5
consistentHighMovement(previous, longTerm, sensitivity) ==
  /\ longTerm > 45 * MOVEMENT_THRESHOLD_WALKING(sensitivity)
  /\ previous > 15 * MOVEMENT_THRESHOLD_WALKING(sensitivity)

\* the inner if, of the sums of the three windows
SuddenStopOfSums(recent, previous, longTerm, sensitivity) ==
  /\ MovementDropAbove90(recent, previous)
  /\ consistentHighMovement(previous, longTerm, sensitivity)
  \* avgRecent < MOVEMENT_THRESHOLD_IDLE * 2
  /\ recent < 6 * MOVEMENT_THRESHOLD_IDLE(sensitivity)
  /\ PreviousRunningLevel(previous, sensitivity)

SuddenStopCondition(history, sensitivity) ==
  \* no comparison with a NaN threshold holds
  /\ sensitivity # NoSensitivity
  /\ SuddenStopOfSums(sumRecent(history), sumPrevious(history), sumLongTerm(history),
                      sensitivity)

(***************************************************************************)
(* Bounds of the model and the environment's inputs.                       *)
(***************************************************************************)
\* the activity listeners that may subscribe: the callback of 1 returns, the
\* callback of 2 throws
Listeners == {1, 2}
ThrowingListeners == {2}
Throws(l) == l \in ThrowingListeners

\* the stored sensitivities: the settings slider has the steps 0, 0.5 and 1
Sensitivities == {0, 5, 10}
\* what loadSettings() may resolve with: a stored sensitivity or none
LoadedSensitivities == Sensitivities \cup {NoSensitivity}

\* the clock (Date.now()) when the app is launched, in ms
LaunchTime == 100000

\* what the sensors read at rest: gravity as (0, 6, 8), no rotation
BaselineSample == SampleObject(Num(0), Num(6), Num(8), Num(0), Num(0), Num(0))
\* a jolt: the gyroscope reads g on one axis and the accelerometer e more
\* than gravity
SpikeSample(g, e) == SampleObject(Num(0), Num(0), Num(10 + e), Num(g), Num(0), Num(0))

\* the movement score of a window of 24 samples at rest and one jolt is
\* 3.264 g^2 + 0.4875 e^2:
\*   <<2, 0>> 13.056   <<2, 3>> 17.44   <<2, 4>> 20.86   <<2, 5>> 25.24
\*   <<3, 0>> 29.376   <<3, 3>> 33.76   <<3, 4>> 37.18
\* samples predictActivity must reject
InvalidSamples ==
  {NotAnObject,
   [BaselineSample EXCEPT !.ax = NaN],
   [BaselineSample EXCEPT !.az = PosInfinity],
   [BaselineSample EXCEPT !.gx = NegInfinity],
   [BaselineSample EXCEPT !.gy = AString],
   [BaselineSample EXCEPT !.gz = Undefined]}

(***************************************************************************)
(* State.                                                                  *)
(***************************************************************************)
VARIABLES
  \* harModelService.js, module state
  listeners,              \* the subscribed activity listeners, in order
  latestActivityState,    \* the published snapshot
  \* HARModelService, instance state
  sensorDataBuffer, settings, isMonitoring, lastActivity, activityChangeCount,
  sensorUnsubscribe, movementHistory, highMovementDuration,
  consecutiveStillReadings, lastSuddenStopTime, walkingSessionActive,
  \* sensorService.js: the callbacks registered on the feed, in order
  sensorListeners,
  \* start()'s import('./sensorService') promises that have not resolved
  pendingSubscriptions,
  \* the callbacks the feed's notifyListeners has still to call for the
  \* sample it is delivering, and that sample
  inflight, currentSample,
  \* the environment: the clock, the feed, what has been done so far, and
  \* what a specification allows (how many samples, calls and changes of the
  \* feed, where in the feed's period the app calls, whether samples flow
  \* before the settings are loaded)
  now, feed, done, limits,
  \* the last operation: its name, whether it published a snapshot, whether
  \* it threw, the activity listeners it called, in order, and what it returned
  outcome

harVars == <<sensorDataBuffer, settings, isMonitoring, lastActivity, activityChangeCount,
             sensorUnsubscribe, movementHistory, highMovementDuration,
             consecutiveStillReadings, lastSuddenStopTime, walkingSessionActive>>
vars == <<listeners, latestActivityState, harVars, sensorListeners, pendingSubscriptions,
          inflight, currentSample, now, feed, done, limits, outcome>>

NoAnomaly == [type |-> "null", severity |-> "null"]
SuddenStop == [type |-> "SUDDEN_STOP", severity |-> "HIGH"]
ActivityState(name, confidence, active, anomaly) ==
  [name |-> name, confidence |-> confidence, isProtectionActive |-> active,
   anomaly |-> anomaly]
\* the snapshot the module starts with and stop() publishes
IdleInactive == ActivityState("IDLE", 100, FALSE, NoAnomaly)

NoSettings == [loaded |-> FALSE, detectionSensitivity |-> 0]

(***************************************************************************)
(* notifyListeners (part_010, lines 19-23): the listeners are called in    *)
(* order; a listener that throws ends the loop and the exception leaves    *)
(* notifyListeners.                                                        *)
(***************************************************************************)
RECURSIVE CalledListeners(_)
CalledListeners(ls) ==
  IF ls = <<>> THEN <<>>
  ELSE IF Throws(Head(ls)) THEN <<Head(ls)>>
  ELSE <<Head(ls)>> \o CalledListeners(Tail(ls))

NotifyThrows(ls) == \E i \in 1..Len(ls) : Throws(ls[i])

\* what an operation that ends by broadcasting and then returns value leaves
\* behind
Broadcast(op, ls, value) ==
  [op |-> op, published |-> TRUE, threw |-> NotifyThrows(ls),
   notified |-> CalledListeners(ls),
   returned |-> IF NotifyThrows(ls) THEN <<>> ELSE <<value>>]
\* what an operation that broadcasts nothing leaves behind
Quiet(op, returned) ==
  [op |-> op, published |-> FALSE, threw |-> FALSE, notified |-> <<>>,
   returned |-> returned]

(***************************************************************************)
(* A listener that calls stop() from its callback when the snapshot it is  *)
(* called with carries an anomaly.  stop() (lines 76-94) assigns the idle  *)
(* snapshot to latestActivityState and calls notifyListeners itself; the   *)
(* loop that called the listener then goes on, and passes what             *)
(* latestActivityState holds at each call (line 21).                       *)
(***************************************************************************)
StoppingListeners == {3}
StopsOn(l, value) == l \in StoppingListeners /\ value.anomaly # NoAnomaly

\* the calls of the loop of notifyListeners from listener i on, in order,
\* while latestActivityState is value: to is the listener called, with is
\* what it is called with.  An exception ends all the loops under way
RECURSIVE ListenerCalls(_, _, _)
ListenerCalls(ls, i, value) ==
  IF i > Len(ls) THEN <<>>
  ELSE LET call == <<[to |-> ls[i], with |-> value]>>
       IN  IF Throws(ls[i]) THEN call
           ELSE IF StopsOn(ls[i], value) THEN
             LET nested == ListenerCalls(ls, 1, IdleInactive)
             IN  call \o nested
                   \o (IF nested # <<>> /\ Throws(nested[Len(nested)].to) THEN <<>>
                       ELSE ListenerCalls(ls, i + 1, IdleInactive))
           ELSE call \o ListenerCalls(ls, i + 1, value)

\* stop() is called during notifyListeners() of the snapshot
StopsInside(ls, snapshot) ==
  \E c \in 1..Len(ListenerCalls(ls, 1, snapshot)) :
    StopsOn(ListenerCalls(ls, 1, snapshot)[c].to, ListenerCalls(ls, 1, snapshot)[c].with)

\* what a tick that broadcasts snapshot and then returns latestActivityState
\* leaves behind
BroadcastOfTick(ls, snapshot) ==
  LET calls == ListenerCalls(ls, 1, snapshot)
      threw == calls # <<>> /\ Throws(calls[Len(calls)].to)
  IN  [op |-> "predictActivity", published |-> TRUE, threw |-> threw,
       notified |-> [c \in 1..Len(calls) |-> calls[c].to],
       returned |-> IF threw THEN <<>>
                    ELSE <<IF StopsInside(ls, snapshot) THEN IdleInactive ELSE snapshot>>,
       calls |-> calls]

(***************************************************************************)
(* predictActivity (part_010, lines 135-355).                              *)
(***************************************************************************)
sessionVars == <<lastActivity, activityChangeCount, movementHistory, highMovementDuration,
                 consecutiveStillReadings, lastSuddenStopTime, walkingSessionActive>>

\* the same without the test of the published name
PublishNamedAlways(name) ==
  /\ latestActivityState' =
       [latestActivityState EXCEPT !.name = name, !.confidence = 50]
  /\ outcome' = Broadcast("predictActivity", listeners, latestActivityState')

\* the same without the call of notifyListeners
PublishUnlessNamedUnannounced(name) ==
  IF latestActivityState.name # name THEN
    /\ latestActivityState' =
         [latestActivityState EXCEPT !.name = name, !.confidence = 50]
    /\ outcome' = Quiet("predictActivity", <<latestActivityState'>>)
  ELSE
    /\ UNCHANGED latestActivityState
    /\ outcome' = Quiet("predictActivity", <<latestActivityState>>)

\* lines 166-173 and 151-158: publish name with confidence 0.5 unless the
\* published name is name already
PublishUnlessNamed(name) ==
  IF latestActivityState.name # name THEN
    /\ latestActivityState' =
         [latestActivityState EXCEPT !.name = name, !.confidence = 50]
    /\ outcome' = Broadcast("predictActivity", listeners, latestActivityState')
  ELSE
    /\ UNCHANGED latestActivityState
    /\ outcome' = Quiet("predictActivity", <<latestActivityState>>)

\* the same with a highMovementDuration that any tick that is neither
\* WALKING nor RUNNING resets
DetectAndPublishConsecutive(buffer, smoothed, history, sensitivity) ==
  LET activity == smoothed.activity
      isHighMovement == activity \in {"WALKING", "RUNNING"}
      isStill == activity = "IDLE"
      \* Date.now(), the clock at the call
      timeSinceLastTrigger == now' - lastSuddenStopTime
      stillReset == isStill /\ consecutiveStillReadings + 1 > STILL_RESET_TICKS
      highDuration == IF isHighMovement THEN highMovementDuration + 1 ELSE 0
      sessionActive == IF isHighMovement
                       THEN walkingSessionActive \/ highDuration > WALKING_SESSION_TICKS
                       ELSE IF stillReset THEN FALSE ELSE walkingSessionActive
  IN  \E fires \in {SuddenStopArmed(history, sessionActive, highDuration,
                                    timeSinceLastTrigger)
                    /\ SuddenStopCondition(history, sensitivity)} :
      /\ lastActivity' = smoothed.lastActivity
      /\ activityChangeCount' = smoothed.activityChangeCount
      /\ movementHistory' = history
      /\ consecutiveStillReadings' =
           IF isHighMovement THEN 0
           ELSE IF isStill THEN consecutiveStillReadings + 1 ELSE 0
      /\ highMovementDuration' = IF fires THEN 0 ELSE highDuration
      /\ walkingSessionActive' = IF fires THEN FALSE ELSE sessionActive
      /\ lastSuddenStopTime' = IF fires THEN now' ELSE lastSuddenStopTime
      /\ LET snapshot == ActivityState(activity, ToFixed2(smoothed.confidence),
                                       isMonitoring,
                                       IF fires THEN SuddenStop ELSE NoAnomaly)
         IN  /\ outcome' = BroadcastOfTick(listeners, snapshot)
             /\ IF StopsInside(listeners, snapshot)
                THEN \* a listener has called stop()
                     /\ isMonitoring' = FALSE
                     /\ sensorDataBuffer' = <<>>
                     /\ sensorUnsubscribe' = 0
                     /\ latestActivityState' = IdleInactive
                ELSE /\ sensorDataBuffer' = buffer
                     /\ latestActivityState' = snapshot
                     /\ UNCHANGED <<isMonitoring, sensorUnsubscribe>>
      /\ UNCHANGED settings

\* lines 271-354: the anomaly detection and the publication of a tick whose
\* smoothed classification and movement history are given
DetectAndPublish(buffer, smoothed, history, sensitivity) ==
  LET activity == smoothed.activity
      isHighMovement == activity \in {"WALKING", "RUNNING"}
      isStill == activity = "IDLE"
      \* Date.now(), the clock at the call
      timeSinceLastTrigger == now' - lastSuddenStopTime
      stillReset == isStill /\ consecutiveStillReadings + 1 > STILL_RESET_TICKS
      highDuration == IF isHighMovement THEN highMovementDuration + 1
                      ELSE IF stillReset THEN 0 ELSE highMovementDuration
      sessionActive == IF isHighMovement
                       THEN walkingSessionActive \/ highDuration > WALKING_SESSION_TICKS
                       ELSE IF stillReset THEN FALSE ELSE walkingSessionActive
  IN  \E fires \in {SuddenStopArmed(history, sessionActive, highDuration,
                                    timeSinceLastTrigger)
                    /\ SuddenStopCondition(history, sensitivity)} :
      /\ lastActivity' = smoothed.lastActivity
      /\ activityChangeCount' = smoothed.activityChangeCount
      /\ movementHistory' = history
      /\ consecutiveStillReadings' =
           IF isHighMovement THEN 0
           ELSE IF isStill THEN consecutiveStillReadings + 1 ELSE 0
      /\ highMovementDuration' = IF fires THEN 0 ELSE highDuration
      /\ walkingSessionActive' = IF fires THEN FALSE ELSE sessionActive
      /\ lastSuddenStopTime' = IF fires THEN now' ELSE lastSuddenStopTime
      /\ LET snapshot == ActivityState(activity, ToFixed2(smoothed.confidence),
                                       isMonitoring,
                                       IF fires THEN SuddenStop ELSE NoAnomaly)
         IN  /\ outcome' = BroadcastOfTick(listeners, snapshot)
             /\ IF StopsInside(listeners, snapshot)
                THEN \* a listener has called stop()
                     /\ isMonitoring' = FALSE
                     /\ sensorDataBuffer' = <<>>
                     /\ sensorUnsubscribe' = 0
                     /\ latestActivityState' = IdleInactive
                ELSE /\ sensorDataBuffer' = buffer
                     /\ latestActivityState' = snapshot
                     /\ UNCHANGED <<isMonitoring, sensorUnsubscribe>>
      /\ UNCHANGED settings

\* the same without the shift
PushHistoryUnbounded(history, totalMovement) == Append(history, totalMovement)

\* movementHistory.push(totalMovement), shifted beyond 100 entries
PushHistory(history, totalMovement) ==
  IF Len(history) + 1 > MOVEMENT_HISTORY_SIZE
  THEN Append(Tail(history), totalMovement)
  ELSE Append(history, totalMovement)

\* lines 175-269: the classification of a movement score
ClassifyAndPublish(buffer, totalMovement, sensitivity) ==
  DetectAndPublish(buffer,
                   Smooth(Classify(totalMovement, sensitivity), lastActivity,
                          activityChangeCount),
                   PushHistory(movementHistory, totalMovement), sensitivity)

\* lines 175-354: a classification tick over the full window
ClassificationTick(buffer) ==
  ClassifyAndPublish(buffer, TotalMovement(buffer), settings.detectionSensitivity)

PredictActivity(sensorData) ==
  IF ~IsValidSample(sensorData) THEN
    /\ UNCHANGED <<latestActivityState, harVars>>
    /\ outcome' = Quiet("predictActivity", <<latestActivityState>>)
  ELSE IF ~settings.loaded \/ ~isMonitoring THEN
    /\ PublishUnlessNamed(IF isMonitoring THEN "CALIBRATING" ELSE "IDLE")
    /\ UNCHANGED harVars
  ELSE
    LET pushed == Append(sensorDataBuffer, sensorData)
        buffer == IF Len(pushed) > SENSOR_DATA_BUFFER_SIZE THEN Tail(pushed) ELSE pushed
    IN  IF Len(buffer) < SENSOR_DATA_BUFFER_SIZE THEN
          /\ sensorDataBuffer' = buffer
          /\ PublishUnlessNamed("CALIBRATING")
          /\ UNCHANGED <<settings, isMonitoring, sensorUnsubscribe, sessionVars>>
        ELSE ClassificationTick(buffer)

(***************************************************************************)
(* The service's lifecycle (part_010, lines 39-99).                        *)
(***************************************************************************)
Idle == inflight = <<>>
\* the app calls the service, and loadSettings() resolves, before the first
\* sample or at the positions limits.grid of the feed's period
AppCalls == Idle /\ (done.samples = 0 \/ feed.pos \in limits.grid)

\* the snapshots carrying an anomaly that have been published: who published,
\* at which tick, at which tick of the session, after how many stop() calls
\* and when
Publication(by, snapshot, tick, sessionTick) ==
  [by |-> by, anomaly |-> snapshot.anomaly, tick |-> tick, sessionTick |-> sessionTick,
   stops |-> done.stops, at |-> now']
LogAnomaly(log, published, entry) ==
  IF published /\ entry.anomaly # NoAnomaly THEN Append(log, entry) ELSE log

\* start(): the callback it will register is named by the number of the call
Start ==
  /\ AppCalls
  /\ done.starts < limits.starts
  /\ isMonitoring' = TRUE
  /\ pendingSubscriptions' = Append(pendingSubscriptions, done.starts + 1)
  /\ latestActivityState' = [latestActivityState EXCEPT !.isProtectionActive = TRUE]
  /\ outcome' = Broadcast("start", listeners, Undefined)
  /\ UNCHANGED <<listeners, sensorDataBuffer, settings, sensorUnsubscribe, sessionVars,
                 sensorListeners, inflight, currentSample, now, feed, limits>>
  /\ done' = [done EXCEPT !.starts = @ + 1,
                          !.broadcast = <<latestActivityState'>>,
                          !.fired = LogAnomaly(@, TRUE,
                                               Publication("start", latestActivityState',
                                                           done.ticks, done.sessionTicks))]

\* the then() of start()'s import: subscribeToSensorData(callback)
SubscriptionCompletes ==
  /\ Idle
  /\ pendingSubscriptions # <<>>
  /\ sensorListeners' = Append(sensorListeners, Head(pendingSubscriptions))
  /\ sensorUnsubscribe' = Head(pendingSubscriptions)
  /\ pendingSubscriptions' = Tail(pendingSubscriptions)
  /\ outcome' = Quiet("subscribed", <<>>)
  /\ UNCHANGED <<listeners, latestActivityState, sensorDataBuffer, settings, isMonitoring,
                 sessionVars, inflight, currentSample, now, feed, done, limits>>

\* the function subscribeToSensorData returned (part_011, lines 25-27)
RemoveCallback(ls, callback) == SelectSeq(ls, LAMBDA l : l # callback)

Stop ==
  /\ AppCalls
  /\ done.stops < limits.stops
  /\ isMonitoring' = FALSE
  /\ sensorDataBuffer' = <<>>
  /\ IF sensorUnsubscribe # 0
     THEN /\ sensorListeners' = RemoveCallback(sensorListeners, sensorUnsubscribe)
          /\ sensorUnsubscribe' = 0
     ELSE UNCHANGED <<sensorListeners, sensorUnsubscribe>>
  /\ latestActivityState' = IdleInactive
  /\ outcome' = Broadcast("stop", listeners, Undefined)
  /\ done' = [done EXCEPT !.stops = @ + 1, !.accepted = 0, !.sessionTicks = 0,
                          !.broadcast = <<latestActivityState'>>]
  /\ UNCHANGED <<listeners, settings, sessionVars, pendingSubscriptions, inflight,
                 currentSample, now, feed, limits>>

\* the same with a broadcast of the published snapshot
RefreshSettingsAnnounced(sensitivity) ==
  /\ AppCalls
  /\ ~settings.loaded
  /\ settings' = [loaded |-> TRUE, detectionSensitivity |-> sensitivity]
  /\ outcome' = Broadcast("settings", listeners, Undefined)
  /\ UNCHANGED <<listeners, latestActivityState, sensorDataBuffer, isMonitoring,
                 sensorUnsubscribe, sessionVars, sensorListeners, pendingSubscriptions,
                 inflight, currentSample, now, feed, done, limits>>

\* the constructor's _refreshSettings(): loadSettings() resolves with the
\* stored settings
RefreshSettingsCompletes(sensitivity) ==
  /\ AppCalls
  /\ ~settings.loaded
  /\ settings' = [loaded |-> TRUE, detectionSensitivity |-> sensitivity]
  /\ outcome' = Quiet("settings", <<>>)
  /\ UNCHANGED <<listeners, latestActivityState, sensorDataBuffer, isMonitoring,
                 sensorUnsubscribe, sessionVars, sensorListeners, pendingSubscriptions,
                 inflight, currentSample, now, feed, done, limits>>

\* the subscriptions made with callback l among done.subscriptions, which
\* records for every call of subscribeToActivity the callback and how often
\* the function it returned has been called
SubscriptionsOf(l) ==
  {k \in 1..Len(done.subscriptions) : done.subscriptions[k].callback = l}

\* subscribeToActivity(callback) (part_010, lines 25-32)
SubscribeToActivity(l) ==
  /\ AppCalls
  /\ Cardinality(SubscriptionsOf(l)) < limits.subscriptions
  /\ listeners' = Append(listeners, l)
  \* callback(latestActivityState): passed is what the callback was called with
  /\ outcome' = [op |-> "subscribeToActivity", published |-> FALSE, threw |-> Throws(l),
                 notified |-> <<l>>, returned |-> <<>>,
                 passed |-> <<latestActivityState>>]
  /\ done' = [done EXCEPT !.subscriptions =
                            Append(@, [callback |-> l, unsubscribed |-> 0])]
  /\ UNCHANGED <<latestActivityState, harVars, sensorListeners, pendingSubscriptions,
                 inflight, currentSample, now, feed, limits>>

\* the function that subscribeToActivity returned for subscription k (lines
\* 29-31): listeners = listeners.filter(listener => listener !== callback).
\* A callback that threw when it was first called has left no such function
UnsubscribeFromActivity(k) ==
  /\ AppCalls
  /\ k \in 1..Len(done.subscriptions)
  /\ ~Throws(done.subscriptions[k].callback)
  /\ done.subscriptions[k].unsubscribed < limits.unsubscribes
  /\ listeners' = SelectSeq(listeners, LAMBDA listener :
                                         listener # done.subscriptions[k].callback)
  /\ outcome' = Quiet("unsubscribe", <<>>)
  /\ done' = [done EXCEPT !.subscriptions[k].unsubscribed = @ + 1]
  /\ UNCHANGED <<latestActivityState, harVars, sensorListeners, pendingSubscriptions,
                 inflight, currentSample, now, feed, limits>>

\* getLatestActivity() (part_010, lines 34-36)
getLatestActivity == latestActivityState

(***************************************************************************)
(* The sensor feed (part_011).  The feed emits one combined sample every   *)
(* UPDATE_INTERVAL_MS and its notifyListeners calls the registered         *)
(* callbacks in order; each callback of the service calls predictActivity. *)
(* The samples: at rest, and while feed.on one jolt of kind feed.kind      *)
(* every 25 samples, so that every full window holds exactly one jolt and  *)
(* the movement score is constant while the jolts go on.                   *)
(***************************************************************************)
FeedSample ==
  IF feed.on /\ feed.pos = 0 THEN SpikeSample(feed.kind[1], feed.kind[2])
  ELSE BaselineSample

\* a listener has called stop() during the call of predictActivity, and the
\* snapshot that the call has published first
StoppedInside == isMonitoring /\ ~isMonitoring'
PublishedFirst ==
  IF StoppedInside THEN outcome'.calls[1].with ELSE latestActivityState'
\* stop() has called the function that subscribeToSensorData returned
UnlessStoppedInside(callbacks) ==
  IF StoppedInside THEN RemoveCallback(callbacks, sensorUnsubscribe) ELSE callbacks

\* one call of predictActivity by a callback of the feed, the remaining
\* callbacks being rest; done records what the environment has seen: the
\* samples emitted, whether the last sample delivered was malformed, the
\* samples accepted and the ticks since the last stop(), all ticks, the
\* snapshots published with an anomaly and the snapshot the listeners were
\* last called with
Delivered(sensorData, rest, counted) ==
  LET accepted == IsValidSample(sensorData) /\ settings.loaded /\ isMonitoring
      ticked == accepted /\ Len(sensorDataBuffer) + 1 >= SENSOR_DATA_BUFFER_SIZE
  IN  /\ PredictActivity(sensorData)
      /\ inflight' = IF outcome'.threw THEN <<>> ELSE rest
      /\ currentSample' = IF inflight' = <<>> THEN NotAnObject ELSE sensorData
      /\ done' = [done EXCEPT !.samples = @ + counted,
                              !.malformed = sensorData \in InvalidSamples,
                              !.stops = IF StoppedInside THEN @ + 1 ELSE @,
                              !.accepted = IF StoppedInside THEN 0
                                           ELSE IF accepted THEN @ + 1 ELSE @,
                              !.ticks = IF ticked THEN @ + 1 ELSE @,
                              !.sessionTicks = IF StoppedInside THEN 0
                                               ELSE IF ticked THEN @ + 1 ELSE @,
                              !.broadcast = IF outcome'.published
                                            THEN <<latestActivityState'>> ELSE @,
                              !.fired = LogAnomaly(@, outcome'.published,
                                                   Publication("predictActivity",
                                                               PublishedFirst,
                                                               done.ticks + 1,
                                                               done.sessionTicks + 1))]
      /\ sensorListeners' = UnlessStoppedInside(sensorListeners)
      /\ UNCHANGED <<listeners, pendingSubscriptions, limits>>

\* the feed emits its next sample and calls the first callback
SensorEmit ==
  /\ Idle
  /\ sensorListeners # <<>>
  /\ done.samples < limits.samples
  /\ settings.loaded \/ limits.unloaded
  \* an import resolves before the feed's next sample, 100 ms later
  /\ pendingSubscriptions = <<>>
  /\ now' = now + UPDATE_INTERVAL_MS
  /\ feed' = [feed EXCEPT !.pos = (@ + 1) % SENSOR_DATA_BUFFER_SIZE]
  /\ Delivered(FeedSample, Tail(sensorListeners), 1)

\* the feed emits a malformed sample and calls the first callback
SensorEmitInvalid(sensorData) ==
  /\ Idle
  /\ sensorListeners # <<>>
  /\ UNCHANGED <<now, feed>>
  /\ Delivered(sensorData, Tail(sensorListeners), 0)

\* notifyListeners of the feed calls its next callback
SensorNotifyNext ==
  /\ inflight # <<>>
  /\ UNCHANGED <<now, feed>>
  /\ Delivered(currentSample, Tail(inflight), 0)

\* the jolts begin or end, between two periods
FeedToggle ==
  /\ Idle
  /\ feed.pos = 0
  /\ done.toggles < limits.toggles
  /\ feed' = [feed EXCEPT !.on = ~@]
  /\ done' = [done EXCEPT !.toggles = @ + 1]
  /\ outcome' = Quiet("feed", <<>>)
  /\ UNCHANGED <<listeners, latestActivityState, harVars, sensorListeners,
                 pendingSubscriptions, inflight, currentSample, now, limits>>

(***************************************************************************)
(* A tick whose window is not followed sample by sample: the feed delivers *)
(* a valid sample that completes a window of movement score totalMovement  *)
(* (lines 135-158 and 175-354; the samples of the window are left out and  *)
(* sensorDataBuffer is left as it is).  done.log records the ticks: the    *)
(* score, the raw classification, what was published and the smoothing     *)
(* state the tick left behind.                                             *)
(***************************************************************************)
Score(thousandths) == THRESHOLD_TO_MOVEMENT * thousandths

TickRecord(totalMovement, raw, snapshot, last, changeCount) ==
  [score |-> totalMovement, raw |-> raw, name |-> snapshot.name,
   confidence |-> snapshot.confidence, lastActivity |-> last,
   activityChangeCount |-> changeCount]

ScoreTick(totalMovement) ==
  LET ticked == settings.loaded /\ isMonitoring
  IN  /\ Idle
      /\ Len(sensorListeners) = 1
      /\ pendingSubscriptions = <<>>
      /\ done.samples < limits.samples
      /\ settings.loaded \/ limits.unloaded
      /\ now' = now + UPDATE_INTERVAL_MS
      /\ IF ~ticked THEN
           /\ PublishUnlessNamed(IF isMonitoring THEN "CALIBRATING" ELSE "IDLE")
           /\ UNCHANGED harVars
         ELSE ClassifyAndPublish(sensorDataBuffer, totalMovement,
                                 settings.detectionSensitivity)
      /\ done' = [done EXCEPT !.samples = @ + 1,
                              !.malformed = FALSE,
                              !.stops = IF StoppedInside THEN @ + 1 ELSE @,
                              !.accepted = IF StoppedInside THEN 0
                                           ELSE IF ticked THEN @ + 1 ELSE @,
                              !.ticks = IF ticked THEN @ + 1 ELSE @,
                              !.sessionTicks = IF StoppedInside THEN 0
                                               ELSE IF ticked THEN @ + 1 ELSE @,
                              !.broadcast = IF outcome'.published
                                            THEN <<latestActivityState'>> ELSE @,
                              !.fired = LogAnomaly(@, outcome'.published,
                                                   Publication("predictActivity",
                                                               PublishedFirst,
                                                               done.ticks + 1,
                                                               done.sessionTicks + 1)),
                              !.log = IF ticked
                                      THEN Append(@, TickRecord(
                                             totalMovement,
                                             Classify(totalMovement,
                                                      settings.detectionSensitivity),
                                             latestActivityState', lastActivity',
                                             activityChangeCount'))
                                      ELSE @]
      /\ sensorListeners' = UnlessStoppedInside(sensorListeners)
      /\ UNCHANGED <<listeners, pendingSubscriptions, inflight, currentSample, feed,
                     limits>>

(***************************************************************************)
(* The timer of the constructor: setInterval(this._refreshSettings, 30000) *)
(* (line 58) hands the method over without its receiver.  The timer calls  *)
(* it with a this that is not the service: undefined where the timer calls *)
(* the function bare (a class body is strict code), the global object in a *)
(* browser.  With undefined the assignment to this.settings of line 97     *)
(* raises a TypeError and the promise of the async method is rejected;     *)
(* with another object the loaded settings become a property of that       *)
(* object.  Either way the settings of the service stay as they are.       *)
(* stored is the sensitivity the store holds when the timer fires; which   *)
(* samples lie between two firings is left open.                           *)
(***************************************************************************)
PeriodicRefresh(stored) ==
  /\ Idle
  /\ \E threw \in BOOLEAN :
       outcome' = [op |-> "_refreshSettings", published |-> FALSE, threw |-> threw,
                   notified |-> <<>>, returned |-> <<>>, stored |-> stored]
  /\ UNCHANGED <<listeners, latestActivityState, harVars, sensorListeners,
                 pendingSubscriptions, inflight, currentSample, now, feed, done, limits>>

(***************************************************************************)
(* The state after the module is loaded and the singleton constructed.     *)
(***************************************************************************)
NothingDone ==
  [samples |-> 0, malformed |-> FALSE, accepted |-> 0, ticks |-> 0, sessionTicks |-> 0,
   toggles |-> 0, starts |-> 0, stops |-> 0, fired |-> <<>>, broadcast |-> <<>>,
   log |-> <<>>, subscriptions |-> <<>>]

Constructed ==
  /\ listeners = <<>>
  /\ latestActivityState = IdleInactive
  /\ sensorDataBuffer = <<>>
  /\ settings = NoSettings
  /\ isMonitoring = FALSE
  /\ lastActivity = "IDLE"
  /\ activityChangeCount = 0
  /\ sensorUnsubscribe = 0
  /\ movementHistory = <<>>
  /\ highMovementDuration = 0
  /\ consecutiveStillReadings = 0
  /\ lastSuddenStopTime = 0
  /\ walkingSessionActive = FALSE
  /\ sensorListeners = <<>>
  /\ pendingSubscriptions = <<>>
  /\ inflight = <<>>
  /\ currentSample = NotAnObject
  /\ now = LaunchTime
  /\ done = NothingDone
  /\ outcome = Quiet("constructor", <<>>)

(***************************************************************************)
(* Specifications.                                                         *)
(*                                                                         *)
(* Spec: the lifecycle.  start(), stop(), the completion of the            *)
(* subscriptions, the loading of the settings, the activity listeners (one *)
(* of which throws), valid and malformed samples; the feed is followed up  *)
(* to the first classification ticks.  The app calls the service in any    *)
(* order before the first sample, after the first sample of a period and   *)
(* after its last.                                                         *)
(***************************************************************************)
MaxSamples == 27
MaxStarts == 2
MaxStops == 2

Init ==
  /\ Constructed
  /\ feed \in [pos : {0}, on : {TRUE}, kind : {<<3, 0>>}]
  /\ limits = [samples |-> MaxSamples, toggles |-> 0, starts |-> MaxStarts,
               stops |-> MaxStops, grid |-> {0, 1}, unloaded |-> TRUE,
               subscriptions |-> 1, unsubscribes |-> 0]

Next ==
  \/ Start
  \/ Stop
  \/ SubscriptionCompletes
  \/ \E s \in Sensitivities : RefreshSettingsCompletes(s)
  \/ \E l \in Listeners : SubscribeToActivity(l)
  \/ SensorEmit
  \/ \E s \in InvalidSamples : SensorEmitInvalid(s)
  \/ SensorNotifyNext

Spec == Init /\ [][Next]_vars

(***************************************************************************)
(* SpecSuddenStop: one session of a freshly started service with loaded    *)
(* settings.  The jolts go on from the first sample and end at some        *)
(* period.                                                                 *)
(***************************************************************************)
MaxSessionSamples == 130
MaxToggles == 1
\* the positions of the feed's period at which the first sample is emitted:
\* the jolts then fill the windows of 1, 26, 51, ... ticks or of 10, 35, 60, ...
StartPhases == {0, 16}
SessionKinds == {<<2, 0>>, <<2, 3>>, <<2, 4>>, <<2, 5>>, <<3, 0>>, <<3, 3>>, <<3, 4>>}

InitSuddenStop ==
  /\ Constructed
  /\ feed \in [pos : StartPhases, on : {TRUE}, kind : SessionKinds]
  /\ limits = [samples |-> MaxSessionSamples, toggles |-> MaxToggles, starts |-> 1,
               stops |-> 0, grid |-> {}, unloaded |-> FALSE,
               subscriptions |-> 1, unsubscribes |-> 0]

NextSuddenStop ==
  \/ Start
  \/ SubscriptionCompletes
  \/ \E s \in Sensitivities : RefreshSettingsCompletes(s)
  \/ SensorEmit
  \/ FeedToggle

SpecSuddenStop == InitSuddenStop /\ [][NextSuddenStop]_vars

(***************************************************************************)
(* SpecRestart: long sessions with stop() and start() in between.  Once    *)
(* samples flow the app calls the service after the third sample of a      *)
(* period, where a tick that follows the end of the jolts fires.           *)
(***************************************************************************)
MaxRestartSamples == 105
MaxRestarts == 1
RestartGrid == {3}
RestartKinds == {<<2, 4>>, <<3, 0>>}

InitRestart ==
  /\ Constructed
  /\ feed \in [pos : StartPhases, on : {TRUE}, kind : RestartKinds]
  /\ limits = [samples |-> MaxRestartSamples, toggles |-> MaxToggles,
               starts |-> MaxRestarts + 1, stops |-> MaxRestarts, grid |-> RestartGrid,
               unloaded |-> FALSE,
               subscriptions |-> 1, unsubscribes |-> 0]

NextRestart ==
  \/ Start
  \/ Stop
  \/ SubscriptionCompletes
  \/ \E s \in Sensitivities : RefreshSettingsCompletes(s)
  \/ SensorEmit
  \/ SensorNotifyNext
  \/ FeedToggle

SpecRestart == InitRestart /\ [][NextRestart]_vars

(***************************************************************************)
(* SpecSmoothing: one session whose ticks take any of five movement        *)
(* scores, one in each bracket of the classification at every sensitivity  *)
(* of the slider: 0 (IDLE), 1.0 (STANDING, between the idle and the        *)
(* standing threshold), 5.0 (STANDING), 15.0 (WALKING) and 30.0 (RUNNING). *)
(***************************************************************************)
MaxSmoothingTicks == 6
SmoothingScores == {Score(0), Score(1000), Score(5000), Score(15000), Score(30000)}

InitSmoothing ==
  /\ Constructed
  /\ feed \in [pos : {0}, on : {FALSE}, kind : {<<2, 0>>}]
  /\ limits = [samples |-> MaxSmoothingTicks, toggles |-> 0, starts |-> 1,
               stops |-> 0, grid |-> {}, unloaded |-> FALSE,
               subscriptions |-> 1, unsubscribes |-> 0]

NextSmoothing ==
  \/ Start
  \/ SubscriptionCompletes
  \/ \E s \in Sensitivities : RefreshSettingsCompletes(s)
  \/ \E m \in SmoothingScores : ScoreTick(m)

SpecSmoothing == InitSmoothing /\ [][NextSmoothing]_vars

(***************************************************************************)
(* SpecClassify: the first ticks of a session at any sensitivity between 0 *)
(* and 1 in steps of 0.1, with scores in every bracket, on both sides of   *)
(* every threshold and on the thresholds 0.5, 8.0 and 20.0 of sensitivity  *)
(* 1, with activity listeners and with ticks before the settings are       *)
(* loaded.                                                                 *)
(***************************************************************************)
MaxClassifyTicks == 2
SensitivityRange == 0..10
ClassifyScores ==
  {Score(t) : t \in {0, 400, 500, 1000, 1900, 4000, 7000, 8000, 12000, 18000, 20000,
                      27000, 60000}}

InitClassify ==
  /\ Constructed
  /\ feed \in [pos : {0}, on : {FALSE}, kind : {<<2, 0>>}]
  /\ limits = [samples |-> MaxClassifyTicks, toggles |-> 0, starts |-> 1,
               stops |-> 0, grid |-> {}, unloaded |-> TRUE,
               subscriptions |-> 1, unsubscribes |-> 0]

NextClassify ==
  \/ Start
  \/ SubscriptionCompletes
  \/ \E s \in SensitivityRange : RefreshSettingsCompletes(s)
  \/ \E l \in Listeners : SubscribeToActivity(l)
  \/ \E m \in ClassifyScores : ScoreTick(m)

SpecClassify == InitClassify /\ [][NextClassify]_vars

(***************************************************************************)
(* SpecSettings: a session during which the timer of the constructor       *)
(* fires, with any sensitivity of the slider or none loaded at            *)
(* construction and any or none in the store when the timer fires.         *)
(***************************************************************************)
MaxSettingsTicks == 3

InitSettings ==
  /\ Constructed
  /\ feed \in [pos : {0}, on : {FALSE}, kind : {<<2, 0>>}]
  /\ limits = [samples |-> MaxSettingsTicks, toggles |-> 0, starts |-> 1,
               stops |-> 0, grid |-> {}, unloaded |-> FALSE,
               subscriptions |-> 1, unsubscribes |-> 0]

NextSettings ==
  \/ Start
  \/ SubscriptionCompletes
  \/ \E s \in LoadedSensitivities : RefreshSettingsCompletes(s)
  \/ \E v \in LoadedSensitivities : PeriodicRefresh(v)
  \/ \E m \in SmoothingScores : ScoreTick(m)

SpecSettings == InitSettings /\ [][NextSettings]_vars

(***************************************************************************)
(* SpecReentrant: one session, long enough for a sudden stop, with         *)
(* activity listeners of which one calls stop() when it is called with an  *)
(* anomaly.  The listeners subscribe before the first sample, when no      *)
(* anomaly is published: the broadcast of a tick is the only one that      *)
(* reaches the stopping listener with an anomaly.                          *)
(***************************************************************************)
MaxReentrantSamples == 85
ReentrantKinds == {<<3, 0>>, <<3, 4>>}
ReentrantListeners == {1} \cup StoppingListeners

InitReentrant ==
  /\ Constructed
  /\ feed \in [pos : {0}, on : {TRUE}, kind : ReentrantKinds]
  /\ limits = [samples |-> MaxReentrantSamples, toggles |-> MaxToggles, starts |-> 1,
               stops |-> 0, grid |-> {}, unloaded |-> FALSE,
               subscriptions |-> 1, unsubscribes |-> 0]

NextReentrant ==
  \/ Start
  \/ SubscriptionCompletes
  \/ \E s \in Sensitivities : RefreshSettingsCompletes(s)
  \/ \E l \in ReentrantListeners : SubscribeToActivity(l)
  \/ SensorEmit
  \/ FeedToggle

SpecReentrant == InitReentrant /\ [][NextReentrant]_vars

(***************************************************************************)
(* SpecSubscriptions: a session whose activity listeners subscribe and     *)
(* unsubscribe between the ticks.  Both callbacks return; a callback may   *)
(* be subscribed twice and an unsubscribe function called twice.           *)
(***************************************************************************)
MaxSubscriptionTicks == 2
MaxSubscriptionsPerCallback == 2
MaxUnsubscribeCalls == 2
SubscriptionCallbacks == {1, 4}
SubscriptionScores == {Score(0), Score(30000)}

InitSubscriptions ==
  /\ Constructed
  /\ feed \in [pos : {0}, on : {FALSE}, kind : {<<2, 0>>}]
  /\ limits = [samples |-> MaxSubscriptionTicks, toggles |-> 0, starts |-> 1,
               stops |-> 0, grid |-> {0}, unloaded |-> FALSE,
               subscriptions |-> MaxSubscriptionsPerCallback,
               unsubscribes |-> MaxUnsubscribeCalls]

NextSubscriptions ==
  \/ Start
  \/ SubscriptionCompletes
  \/ \E s \in {5} : RefreshSettingsCompletes(s)
  \/ \E l \in SubscriptionCallbacks : SubscribeToActivity(l)
  \/ \E k \in 1..(2 * MaxSubscriptionsPerCallback) : UnsubscribeFromActivity(k)
  \/ \E m \in SubscriptionScores : ScoreTick(m)

SpecSubscriptions == InitSubscriptions /\ [][NextSubscriptions]_vars

(***************************************************************************)
(* Properties.                                                             *)
(***************************************************************************)
TypeOK ==
  /\ latestActivityState.name \in {"IDLE", "STANDING", "WALKING", "RUNNING", "CALIBRATING"}
  /\ latestActivityState.confidence \in 0..100
  /\ Len(sensorDataBuffer) <= SENSOR_DATA_BUFFER_SIZE
  /\ Len(movementHistory) <= MOVEMENT_HISTORY_SIZE

\* a step that is a call of predictActivity with a malformed sample
MalformedCall == outcome'.op = "predictActivity" /\ done'.malformed

\* C1: a call of predictActivity with a sample that is not an object or has a
\* field that is not a finite number changes nothing of the service's state
\* (buffer, movementHistory, counters, published snapshot, listeners,
\* subscriptions), notifies no listener, raises no exception and returns the
\* published snapshot.
C1_InvalidSampleIsNoOp ==
  [][MalformedCall =>
       /\ UNCHANGED <<latestActivityState, harVars, listeners, sensorListeners,
                      pendingSubscriptions>>
       /\ ~outcome'.published
       /\ outcome'.notified = <<>>
       /\ ~outcome'.threw
       /\ outcome'.returned = <<latestActivityState>>]_vars

\* a malformed sample has been delivered to a running service that has
\* classified a window and has listeners
C1_Witness ==
  /\ outcome.op = "predictActivity"
  /\ done.malformed
  /\ isMonitoring
  /\ settings.loaded
  /\ movementHistory # <<>>
  /\ Len(listeners) = 2


\* a call of predictActivity with a well-formed sample has just been made on
\* a running service with loaded settings
ValidCallWhileRunning ==
  /\ outcome.op = "predictActivity"
  /\ ~done.malformed
  /\ isMonitoring
  /\ settings.loaded

\* C2: while the service runs with loaded settings, a call with a valid
\* sample that leaves fewer than 25 samples accepted since the last stop()
\* returns and publishes CALIBRATING with confidence 0.5, and the call that
\* accepts the 25th sample produces the first classified result.
C2_CalibratingUntilWindowFull ==
  ValidCallWhileRunning =>
    IF done.accepted < SENSOR_DATA_BUFFER_SIZE
    THEN /\ latestActivityState.name = "CALIBRATING"
         /\ latestActivityState.confidence = 50
         /\ outcome.returned = <<latestActivityState>>
    ELSE /\ latestActivityState.name # "CALIBRATING"
         /\ outcome.published

\* C6: a broadcast reaches every subscribed listener, in order, and raises
\* nothing, also when a listener throws.
C6_ThrowingListenerIsIsolated ==
  outcome.published => (outcome.notified = listeners /\ ~outcome.threw)

\* the scenario of a first session: 60 consecutive classification ticks at
\* one movement level followed by ticks at rest, and nothing else
LevelThenRest ==
  /\ done.starts = 1
  /\ done.ticks = Len(movementHistory)
  /\ Len(movementHistory) >= 60
  /\ \A i \in 1..60 : movementHistory[i] = movementHistory[1]
  /\ \A i \in 61..Len(movementHistory) : movementHistory[i] = 0
\* the level of the scenario and the number of its ticks at rest
Level == movementHistory[1]
RestTicks == Len(movementHistory) - 60
RunningThreshold == MOVEMENT_THRESHOLD_RUNNING(settings.detectionSensitivity)
WalkingThreshold == MOVEMENT_THRESHOLD_WALKING(settings.detectionSensitivity)

\* the drop (avgPrior - avgRecent) / avgPrior of the first t scores exceeds
\* 0.9: with avgPrior = P / 10 over slice(-20, -10) and avgRecent = R / 3 over
\* slice(-3) this is P > 0 and 3 P > 100 R, written without the product 100 R
DropExceeds90(t) ==
  LET scores == SubSeq(movementHistory, 1, t)
      P == SumSeq(SliceFromEnd(scores, 20, 10))
      R == SumSeq(SliceFromEnd(scores, 3, 0))
  IN  /\ P > 0
      /\ \/ (3 * P) \div 100 > R
         \/ (3 * P) \div 100 = R /\ (3 * P) % 100 > 0
DropTicks == {t \in 1..Len(movementHistory) : DropExceeds90(t)}
FirstDropTick == CHOOSE t \in DropTicks : \A u \in DropTicks : t <= u

\* C3: in a freshly started service, 60 ticks at a RUNNING level followed by
\* up to 5 ticks at rest publish a snapshot with SUDDEN_STOP / HIGH at the
\* first tick whose drop exceeds 0.9 and at no other tick; after the 5 ticks
\* at rest exactly one such snapshot has been published.
C3_SuddenStopFiresOnceAtTheDrop ==
  (LevelThenRest /\ Level > RunningThreshold /\ RestTicks <= 5) =>
    /\ \A i \in 1..Len(done.fired) :
         /\ done.fired[i].by = "predictActivity"
         /\ done.fired[i].anomaly = SuddenStop
         /\ DropTicks # {}
         /\ done.fired[i].tick = FirstDropTick
    /\ Len(done.fired) = IF DropTicks = {} THEN 0 ELSE 1
    /\ RestTicks = 5 => Len(done.fired) = 1

\* the 60 RUNNING ticks and the 5 ticks at rest have been classified, the
\* last of them IDLE, and the 63rd tick has published the sudden stop
C3_Witness ==
  /\ LevelThenRest
  /\ Level > RunningThreshold
  /\ RestTicks = 5
  /\ latestActivityState.name = "IDLE"
  /\ Len(done.fired) = 1
  /\ done.fired[1].tick = 63

\* C4 as stated: 60 ticks at a level classified WALKING followed by ticks
\* at rest never publish a snapshot with SUDDEN_STOP.
C4_WalkingNeverFires ==
  (LevelThenRest /\ Level > WalkingThreshold /\ Level <= RunningThreshold) =>
    done.fired = <<>>

\* C4, amended: 60 ticks at a level classified WALKING that is at most 0.8
\* times the running threshold, followed by ticks at rest, never publish a
\* snapshot with SUDDEN_STOP.
C4_SlowWalkingNeverFires ==
  (LevelThenRest /\ Level > WalkingThreshold /\ 10 * Level <= 8 * RunningThreshold) =>
    done.fired = <<>>

\* 60 ticks at a WALKING level of at most 0.8 times the running threshold
\* and above 1.5 times the walking threshold, then 3 ticks at rest: the drop
\* exceeds 0.9, the walking session is active and has lasted 50 ticks, and
\* nothing has fired
C4_Witness ==
  /\ LevelThenRest
  /\ Level > WalkingThreshold
  /\ 10 * Level <= 8 * RunningThreshold
  /\ 10 * Level > 15 * WalkingThreshold
  /\ RestTicks = 3
  /\ DropExceeds90(Len(movementHistory))
  /\ walkingSessionActive
  /\ highMovementDuration >= MIN_HIGH_MOVEMENT
  /\ done.fired = <<>>

\* a step that is a call of stop()
StopCall == done'.stops = done.stops + 1

\* C7: every call of stop() completes without an exception and leaves
\* isMonitoring false, the buffer empty and IDLE / 1.0 / inactive / no
\* anomaly published; a stop() that follows a stop() changes nothing.
C7_StopIsIdempotent ==
  [][StopCall =>
       /\ ~outcome'.threw
       /\ ~isMonitoring'
       /\ sensorDataBuffer' = <<>>
       /\ latestActivityState' = IdleInactive
       /\ outcome.op = "stop" =>
            UNCHANGED <<latestActivityState, harVars, listeners, sensorListeners,
                        pendingSubscriptions>>]_vars

\* a step that is a call of start() on a service whose last lifecycle call
\* was stop()
StartAfterStop == done'.starts = done.starts + 1 /\ ~isMonitoring /\ done.stops > 0

\* C8: after stop() followed by start() every piece of per-session state has
\* its initial value.
C8_StartResetsSessionState ==
  [][StartAfterStop =>
       /\ sensorDataBuffer' = <<>>
       /\ movementHistory' = <<>>
       /\ highMovementDuration' = 0
       /\ consecutiveStillReadings' = 0
       /\ walkingSessionActive' = FALSE
       /\ activityChangeCount' = 0
       /\ lastActivity' = "IDLE"]_vars

\* C5: any two published snapshots that carry SUDDEN_STOP are more than
\* 30 000 ms apart.
C5_CooldownBetweenSuddenStops ==
  \A i, j \in 1..Len(done.fired) :
    i < j => done.fired[j].at - done.fired[i].at > COOLDOWN_MS

\* C9: once stop() has been called, a snapshot carrying an anomaly is
\* published only after a later start() and at least 50 classification ticks
\* of the new session.
C9_NoAnomalyFromBeforeStop ==
  \A i \in 1..Len(done.fired) :
    done.fired[i].stops > 0 => done.fired[i].sessionTick >= MIN_HISTORY

\* C10: when the last lifecycle call was stop() and every subscription that
\* start() initiated has completed, no callback of the service is registered
\* on the sensor feed.
C10_NoCallbackAfterStop ==
  (done.stops > 0 /\ ~isMonitoring /\ pendingSubscriptions = <<>>)
    => sensorListeners = <<>>

(***************************************************************************)
(* Smoothing and classification, over the ticks of done.log.               *)
(***************************************************************************)
\* tick i - 1 published activity with lastActivity = activity and
\* activityChangeCount = 0
Settled(log, i, activity) ==
  /\ log[i - 1].name = activity
  /\ log[i - 1].lastActivity = activity
  /\ log[i - 1].activityChangeCount = 0

\* the ticks i .. i + k - 1 compute other and tick i + k computes activity
\* again, after tick i - 1 had settled on activity
FlickerAt(log, i, k, activity, other) ==
  /\ i >= 2
  /\ i + k <= Len(log)
  /\ Settled(log, i, activity)
  /\ \A j \in i..(i + k - 1) : log[j].raw.activity = other
  /\ log[i + k].raw.activity = activity

FlickerIsHidden(log, activity, other, ticks) ==
  \A i \in 1..Len(log) : \A k \in 1..ticks :
    FlickerAt(log, i, k, activity, other) =>
      \A j \in i..(i + k) : log[j].name = activity

\* C11: after a tick has published an activity with lastActivity equal to it
\* and activityChangeCount = 0, a flicker to the neighbouring activity and back
\* never changes the published name: IDLE -> STANDING -> IDLE and
\* STANDING -> IDLE -> STANDING with one or two ticks of the other activity,
\* STANDING -> WALKING -> STANDING and WALKING -> STANDING -> WALKING with one
C11_FlickerIsNotPublished ==
  /\ FlickerIsHidden(done.log, "IDLE", "STANDING", 2)
  /\ FlickerIsHidden(done.log, "STANDING", "IDLE", 2)
  /\ FlickerIsHidden(done.log, "STANDING", "WALKING", 1)
  /\ FlickerIsHidden(done.log, "WALKING", "STANDING", 1)

\* a flicker of the greatest length has happened: two ticks of IDLE after
\* STANDING had been published, then STANDING again
C11_Witness ==
  \E i \in 1..Len(done.log) : FlickerAt(done.log, i, 2, "STANDING", "IDLE")

\* the ticks on which the hysteresis suppressed a transition: the published
\* name is not the raw activity
SuppressedTicks(log) == {i \in 1..Len(log) : log[i].name # log[i].raw.activity}

\* raw confidence - published confidence >= 0.3: the published confidence is
\* a whole number of hundredths and the raw one is i + n/d hundredths
DropAtLeast30(tick) == tick.raw.confidence.i - tick.confidence >= 30
\* raw confidence - published confidence >= 0.295
DropAtLeast29Half(tick) ==
  \/ tick.raw.confidence.i - tick.confidence >= 30
  \/ /\ tick.raw.confidence.i - tick.confidence = 29
     /\ 2 * tick.raw.confidence.n >= tick.raw.confidence.d

\* C12 as stated: on every tick where the hysteresis suppresses a
\* transition, the published confidence is lower than the raw confidence of
\* that tick by at least 0.3
C12_SuppressedConfidenceDropsBy30 ==
  \A i \in SuppressedTicks(done.log) : DropAtLeast30(done.log[i])

\* C12 amended: on every tick where the hysteresis suppresses a transition,
\* the published confidence is max(0.3, raw - 0.3) rounded to two decimals: it
\* is at least 0.3; for a raw confidence of 0.6 or more it is lower than the raw
\* confidence by at least 0.295, and for a raw confidence below 0.6 it is 0.3
C12_SuppressedConfidenceHasFloor ==
  \A i \in SuppressedTicks(done.log) :
    /\ done.log[i].confidence >= 30
    /\ IF done.log[i].raw.confidence.i >= 60
       THEN DropAtLeast29Half(done.log[i])
       ELSE done.log[i].confidence = 30

\* a transition was suppressed at a raw confidence below 0.6 and another at a
\* raw confidence of 0.6 or more
C12_Witness ==
  /\ \E i \in SuppressedTicks(done.log) : done.log[i].raw.confidence.i < 60
  /\ \E i \in SuppressedTicks(done.log) : done.log[i].raw.confidence.i >= 60

\* n1/d1 <= n2/d2 for n1, n2 >= 0 and d1, d2 > 0, without a product
RECURSIVE FractionLeq(_, _, _, _)
FractionLeq(n1, d1, n2, d2) ==
  IF n1 \div d1 # n2 \div d2 THEN n1 \div d1 < n2 \div d2
  ELSE IF n1 % d1 = 0 THEN TRUE
  ELSE IF n2 % d2 = 0 THEN FALSE
  ELSE FractionLeq(d2, n2 % d2, d1, n1 % d1)
\* x <= y for two confidences
ConfidenceLeq(x, y) ==
  x.i < y.i \/ (x.i = y.i /\ FractionLeq(x.n, x.d, y.n, y.d))

\* the branch of lines 217-245 a score takes: the two STANDING branches are
\* told apart
BracketOf(score, sensitivity) ==
  IF score > MOVEMENT_THRESHOLD_RUNNING(sensitivity) THEN "RUNNING"
  ELSE IF score > MOVEMENT_THRESHOLD_WALKING(sensitivity) THEN "WALKING"
  ELSE IF score > MOVEMENT_THRESHOLD_STANDING(sensitivity) THEN "STANDING"
  ELSE IF score > MOVEMENT_THRESHOLD_IDLE(sensitivity) THEN "LIGHT"
  ELSE "IDLE"

\* C13 as stated: of two ticks at the same sensitivity whose scores a < b
\* have the same raw activity, the raw confidence of a is at most that of b
C13_ConfidenceRisesWithinActivity ==
  \A i, j \in 1..Len(done.log) :
    (/\ done.log[i].score < done.log[j].score
     /\ done.log[i].raw.activity = done.log[j].raw.activity)
    => ConfidenceLeq(done.log[i].raw.confidence, done.log[j].raw.confidence)

\* C13 amended: of two ticks at the same sensitivity whose scores a < b take
\* the same branch of the classification, the raw confidence of a is at most
\* that of b in the RUNNING, the WALKING and each of the two STANDING branches,
\* and at least that of b in the IDLE branch
C13_ConfidenceMonotoneWithinBranch ==
  \A i, j \in 1..Len(done.log) :
    (/\ done.log[i].score < done.log[j].score
     /\ BracketOf(done.log[i].score, settings.detectionSensitivity)
          = BracketOf(done.log[j].score, settings.detectionSensitivity))
    => IF done.log[i].raw.activity = "IDLE"
       THEN ConfidenceLeq(done.log[j].raw.confidence, done.log[i].raw.confidence)
       ELSE ConfidenceLeq(done.log[i].raw.confidence, done.log[j].raw.confidence)

\* two ticks with scores a < b in the WALKING branch, the second with the
\* greater raw confidence
C13_Witness ==
  \E i, j \in 1..Len(done.log) :
    /\ done.log[i].score < done.log[j].score
    /\ done.log[i].raw.activity = "WALKING"
    /\ done.log[j].raw.activity = "WALKING"
    /\ ~ConfidenceLeq(done.log[j].raw.confidence, done.log[i].raw.confidence)

\* the four thresholds at a sensitivity, in the order idle, standing,
\* walking, running
Thresholds(sensitivity) ==
  <<MOVEMENT_THRESHOLD_IDLE(sensitivity), MOVEMENT_THRESHOLD_STANDING(sensitivity),
    MOVEMENT_THRESHOLD_WALKING(sensitivity), MOVEMENT_THRESHOLD_RUNNING(sensitivity)>>

\* C14: the thresholds of the loaded sensitivity s1 are at least the
\* thresholds of every sensitivity s2 >= s1 up to 1; at sensitivity 1 they are
\* 0.5, 2.0, 8.0 and 20.0 and at sensitivity 0 they are 0.8, 3.2, 11.2 and 26.0
C14_ThresholdsFallWithSensitivity ==
  settings.loaded =>
    /\ \A s2 \in SensitivityRange : \A t \in 1..4 :
         s2 >= settings.detectionSensitivity
         => Thresholds(settings.detectionSensitivity)[t] >= Thresholds(s2)[t]
    /\ settings.detectionSensitivity = 10
       => Thresholds(10) = <<Score(500), Score(2000), Score(8000), Score(20000)>>
    /\ settings.detectionSensitivity = 0
       => Thresholds(0) = <<Score(800), Score(3200), Score(11200), Score(26000)>>

\* at sensitivity 0 a tick has classified the score 27.0 as RUNNING and
\* another the score 18.0 as WALKING: the thresholds 26.0 and 11.2 were used
C14_Witness ==
  /\ settings.loaded
  /\ settings.detectionSensitivity = 0
  /\ \E i \in 1..Len(done.log) :
       done.log[i].score = Score(27000) /\ done.log[i].raw.activity = "RUNNING"
  /\ \E i \in 1..Len(done.log) :
       done.log[i].score = Score(18000) /\ done.log[i].raw.activity = "WALKING"

(***************************************************************************)
(* The periodic refresh of the settings.                                   *)
(***************************************************************************)
\* the timer's _refreshSettings has run while the service is monitoring with
\* loaded settings
PeriodicRefreshWhileRunning ==
  /\ settings.loaded
  /\ isMonitoring
  /\ outcome'.op = "_refreshSettings"

\* C15: while the service is running, a periodic refresh leaves the service
\* with the sensitivity the store holds at that time, so that every later tick
\* classifies with the thresholds scaled by it
C15_PeriodicRefreshAppliesStoredSensitivity ==
  [][PeriodicRefreshWhileRunning
     => /\ settings'.loaded
        /\ settings'.detectionSensitivity = outcome'.stored]_vars

(***************************************************************************)
(* Subscription and the published snapshot.                                *)
(***************************************************************************)
\* C16: subscribeToActivity(cb) has called cb, and nobody else, exactly once
\* with the published snapshot; getLatestActivity() returns the snapshot the
\* listeners were last called with, and the initial snapshot before any
\* broadcast, in every state of the service
C16_SubscriberAndGetterSeeLatest ==
  /\ outcome.op = "subscribeToActivity"
     => /\ outcome.notified = <<listeners[Len(listeners)]>>
        /\ outcome.passed = <<getLatestActivity>>
  /\ done.broadcast # <<>> => <<getLatestActivity>> = done.broadcast
  /\ done.broadcast = <<>> => getLatestActivity = IdleInactive

\* a callback has subscribed after a classification tick and was called with
\* the snapshot of that tick
C16_Witness ==
  /\ outcome.op = "subscribeToActivity"
  /\ outcome.passed = done.broadcast
  /\ outcome.passed[1].name = "RUNNING"
  /\ done.ticks > 0

(***************************************************************************)
(* The shape of the published snapshot.                                    *)
(***************************************************************************)
ActivityNames == {"IDLE", "STANDING", "WALKING", "RUNNING", "CALIBRATING"}
WellFormedSnapshot(snapshot) ==
  /\ snapshot.name \in ActivityNames
  /\ snapshot.confidence \in 0..100
  /\ snapshot.isProtectionActive \in BOOLEAN
  /\ snapshot.anomaly \in {NoAnomaly, SuddenStop}

\* C17: the published snapshot and every value predictActivity returns have
\* a name among IDLE, STANDING, WALKING, RUNNING and CALIBRATING, a confidence
\* within [0, 1], a boolean active flag and an anomaly that is absent or
\* SUDDEN_STOP / HIGH; predictActivity raises only if a subscribed listener
\* throws
C17_SnapshotIsWellFormed ==
  /\ WellFormedSnapshot(latestActivityState)
  /\ outcome.op = "predictActivity"
     => /\ \A i \in 1..Len(outcome.returned) : WellFormedSnapshot(outcome.returned[i])
        /\ outcome.threw => \E i \in 1..Len(listeners) : Throws(listeners[i])
        /\ ~outcome.threw => Len(outcome.returned) = 1

\* predictActivity has returned the snapshot of a classification tick with
\* only a returning listener subscribed
C17_Witness ==
  /\ outcome.op = "predictActivity"
  /\ listeners = <<1>>
  /\ outcome.returned = <<latestActivityState>>
  /\ latestActivityState.name = "WALKING"
  /\ done.ticks = 2

(***************************************************************************)
(* The conditions of a sudden stop, read off the step of a tick.           *)
(***************************************************************************)
\* a step that is a classification tick
TickStep == done'.ticks = done.ticks + 1

\* the session counters at the tick, after the tick's own update of lines
\* 283-297: the published name of the tick is the smoothed activity
HighAtTick == latestActivityState'.name \in {"WALKING", "RUNNING"}
StillResetAtTick == latestActivityState'.name = "IDLE" /\ consecutiveStillReadings' > 30
DurationAtTick ==
  IF HighAtTick THEN highMovementDuration + 1
  ELSE IF StillResetAtTick THEN 0 ELSE highMovementDuration
SessionAtTick ==
  IF HighAtTick THEN walkingSessionActive \/ DurationAtTick > 30
  ELSE IF StillResetAtTick THEN FALSE ELSE walkingSessionActive

\* the sums of the last 3 scores, of the 10 scores at positions -20 .. -11
\* and of the 30 scores at positions -50 .. -21 of the history after the tick
RecentSum == SumSeq(SubSeq(movementHistory', Len(movementHistory') - 2, Len(movementHistory')))
PriorSum ==
  SumSeq(SubSeq(movementHistory', Len(movementHistory') - 19, Len(movementHistory') - 10))
LongSum ==
  SumSeq(SubSeq(movementHistory', Len(movementHistory') - 49, Len(movementHistory') - 20))

\* the conditions of the claim, the averages being RecentSum / 3,
\* PriorSum / 10 and LongSum / 30
SuddenStopConditions ==
  /\ Len(movementHistory') >= 50
  /\ SessionAtTick
  /\ DurationAtTick >= 50
  /\ now' - lastSuddenStopTime > 30000
  \* (avgPrior - avgRecent) / avgPrior > 0.9, that is avgPrior > 0 and
  \* 100 * RecentSum < 3 * PriorSum
  /\ PriorSum > 0
  /\ RecentSum <= (3 * PriorSum - 1) \div 100
  \* avgLong and avgPrior > 1.5 x walking threshold
  /\ LongSum > 45 * MOVEMENT_THRESHOLD_WALKING(settings.detectionSensitivity)
  /\ PriorSum > 15 * MOVEMENT_THRESHOLD_WALKING(settings.detectionSensitivity)
  \* avgPrior > 0.8 x running threshold
  /\ PriorSum > 8 * MOVEMENT_THRESHOLD_RUNNING(settings.detectionSensitivity)
  \* avgRecent < 2 x idle threshold
  /\ RecentSum < 6 * MOVEMENT_THRESHOLD_IDLE(settings.detectionSensitivity)

\* C18: a tick publishes SUDDEN_STOP if and only if, at that tick, the
\* history holds at least 50 scores, the walking session is active, the
\* high-movement count is at least 50, more than 30 s have passed since the
\* last trigger, the drop from the prior to the recent average exceeds 0.9,
\* the long-term and prior averages exceed 1.5 x the walking threshold, the
\* prior average exceeds 0.8 x the running threshold and the recent average is
\* below 2 x the idle threshold
C18_SuddenStopIffConditions ==
  [][TickStep => (latestActivityState'.anomaly = SuddenStop <=> SuddenStopConditions)]_vars

\* a tick has published SUDDEN_STOP, and a later tick with a full history
\* of rest has not
C18_Witness ==
  /\ Len(done.fired) = 1
  /\ done.fired[1].by = "predictActivity"
  /\ done.ticks > done.fired[1].tick
  /\ latestActivityState.anomaly = NoAnomaly
  /\ Len(movementHistory) >= 50

(***************************************************************************)
(* One call of predictActivity for each sample.                            *)
(***************************************************************************)
\* a step in which the feed hands a sample it has already handed to one
\* callback of the service to another callback, while the service is running
SecondDelivery == inflight # <<>> /\ isMonitoring /\ outcome'.op = "predictActivity"

\* C19: whatever the sequence of start() and stop() calls, a sample emitted
\* while the service is running is processed once: a further delivery of the
\* same sample does not happen, so it inserts nothing into the buffer, appends
\* nothing to the history and broadcasts nothing
C19_EachSampleProcessedOnce ==
  [][SecondDelivery
     => /\ sensorDataBuffer' = sensorDataBuffer
        /\ movementHistory' = movementHistory
        /\ ~outcome'.published]_vars

(***************************************************************************)
(* The first ticks of a published change.                                  *)
(***************************************************************************)
\* tick i publishes another name than tick i - 1, from one of first and second
\* to the other
ChangeAt(log, i, first, second) ==
  /\ i >= 2
  /\ {log[i - 1].name, log[i].name} = {first, second}
  /\ first # second

\* the raw activity of tick i was also computed on the ticks - 1 ticks before
ComputedFor(log, i, ticks) ==
  \A j \in (i - ticks + 1)..i : j >= 1 /\ log[j].raw.activity = log[i].raw.activity

\* C20: a change between STANDING and WALKING is not published on the first
\* tick on which the new activity is computed, and a change between IDLE and
\* STANDING not on the first or second consecutive tick, whatever was computed
\* and suppressed on the ticks before
C20_ChangeWaitsForItsOwnTicks ==
  \A i \in 1..Len(done.log) :
    /\ ChangeAt(done.log, i, "STANDING", "WALKING") => ComputedFor(done.log, i, 2)
    /\ ChangeAt(done.log, i, "IDLE", "STANDING") => ComputedFor(done.log, i, 3)

(***************************************************************************)
(* Acceptance of a change, over the ticks of done.log of one session.      *)
(***************************************************************************)
\* lastActivity before tick i
LastBefore(log, i) == IF i = 1 THEN "IDLE" ELSE log[i - 1].lastActivity
Differs(log, i) == log[i].raw.activity # LastBefore(log, i)
Accepted(log, i) == Differs(log, i) /\ log[i].name = log[i].raw.activity

\* the number of consecutive ticks up to tick i whose raw activity differs
\* from lastActivity, none before tick i accepted
RECURSIVE DifferingTicks(_, _)
DifferingTicks(log, i) ==
  IF ~Differs(log, i) THEN 0
  ELSE IF i = 1 \/ ~Differs(log, i - 1) \/ Accepted(log, i - 1) THEN 1
  ELSE DifferingTicks(log, i - 1) + 1

\* the consecutive differing tick on which a change from one activity to
\* another is accepted
AcceptedOn(from, to) ==
  IF {from, to} = {"IDLE", "STANDING"} THEN 3
  ELSE IF {from, to} = {"STANDING", "WALKING"} THEN 2
  ELSE 1

\* the raw activity of tick i was computed on the ticks - 1 ticks before too
SameRawFor(log, i, ticks) ==
  \A j \in (i - ticks + 1)..i : log[j].raw.activity = log[i].raw.activity

\* C21: a raw activity computed on three consecutive ticks is published on
\* the third at the latest; a change between IDLE and STANDING is accepted on
\* the third consecutive differing tick, a change between STANDING and WALKING
\* on the second, every other change on the first; activityChangeCount is 0
\* after an acceptance and after a tick whose raw activity is lastActivity
C21_ChangeAcceptedOnItsTick ==
  \A i \in 1..Len(done.log) :
    /\ (i >= 3 /\ SameRawFor(done.log, i, 3)) => done.log[i].name = done.log[i].raw.activity
    /\ Differs(done.log, i)
       => (Accepted(done.log, i)
           <=> DifferingTicks(done.log, i)
                 >= AcceptedOn(LastBefore(done.log, i), done.log[i].raw.activity))
    /\ (Accepted(done.log, i) \/ ~Differs(done.log, i))
       => done.log[i].activityChangeCount = 0

\* IDLE was published, STANDING was computed on three consecutive ticks and
\* published on the third, then WALKING was computed twice and published on the
\* second tick
C21_Witness ==
  /\ Len(done.log) >= 6
  /\ done.log[1].name = "IDLE"
  /\ \A i \in 2..4 : done.log[i].raw.activity = "STANDING"
  /\ done.log[3].name = "IDLE"
  /\ done.log[4].name = "STANDING"
  /\ \A i \in 5..6 : done.log[i].raw.activity = "WALKING"
  /\ done.log[5].name = "STANDING"
  /\ done.log[6].name = "WALKING"

(***************************************************************************)
(* The session counters, read off the step of a tick.                      *)
(***************************************************************************)
FiresAtTick == latestActivityState'.anomaly = SuddenStop
HighBeforeTick == latestActivityState.name \in {"WALKING", "RUNNING"}

StillReadingsCountIdleTicks ==
  [][TickStep
     => consecutiveStillReadings' =
          IF latestActivityState'.name = "IDLE" THEN consecutiveStillReadings + 1
          ELSE 0]_vars

\* C23: consecutiveStillReadings counts the most recent consecutive IDLE
\* ticks, and once 30 consecutive IDLE ticks have been published
\* highMovementDuration is 0 and walkingSessionActive is false
C23_ThirtyIdleTicksResetTheSession ==
  consecutiveStillReadings >= 30
    => highMovementDuration = 0 /\ ~walkingSessionActive

\* what the code does: the reset comes with the 31st consecutive IDLE tick
ThirtyOneIdleTicksResetTheSession ==
  consecutiveStillReadings >= 31
    => highMovementDuration = 0 /\ ~walkingSessionActive

\* the tick that fires resets the walking session and stamps the clock, and
\* the tick after it publishes no anomaly
FireResetsTheSession ==
  [][TickStep
     => /\ FiresAtTick
           => /\ highMovementDuration' = 0
              /\ ~walkingSessionActive'
              /\ lastSuddenStopTime' = now'
        /\ latestActivityState.anomaly # NoAnomaly
           => latestActivityState'.anomaly = NoAnomaly]_vars

\* C24: the fire resets highMovementDuration and walkingSessionActive and
\* stamps lastSuddenStopTime, so that no two consecutive snapshots carry an
\* anomaly and a snapshot carrying SUDDEN_STOP is followed by at least 50
\* ticks before the next one that carries it
C24_FiftyTicksBetweenSuddenStops ==
  \A i, j \in 1..Len(done.fired) :
    i < j => done.fired[j].tick - done.fired[i].tick >= MIN_HIGH_MOVEMENT

(***************************************************************************)
(* The classification as a step function of the score.                     *)
(***************************************************************************)
StrictlyOrdered(thresholds) ==
  \A t \in 1..(Len(thresholds) - 1) : thresholds[t] < thresholds[t + 1]

\* the activity of a score between the idle, walking and running thresholds
StepActivity(score, sensitivity) ==
  IF score <= MOVEMENT_THRESHOLD_IDLE(sensitivity) THEN "IDLE"
  ELSE IF score <= MOVEMENT_THRESHOLD_WALKING(sensitivity) THEN "STANDING"
  ELSE IF score <= MOVEMENT_THRESHOLD_RUNNING(sensitivity) THEN "WALKING"
  ELSE "RUNNING"

\* C25: at the loaded sensitivity the thresholds are strictly ordered, idle
\* below standing below walking below running, and the raw activity of every
\* tick is IDLE for a score up to the idle threshold, STANDING above it up to
\* the walking threshold, WALKING above that up to the running threshold and
\* RUNNING above the running threshold
C25_ActivityIsStepFunctionOfScore ==
  settings.loaded =>
    /\ StrictlyOrdered(Thresholds(settings.detectionSensitivity))
    /\ \A i \in 1..Len(done.log) :
         done.log[i].raw.activity
           = StepActivity(done.log[i].score, settings.detectionSensitivity)

\* two ticks whose scores are the walking and the running threshold of the
\* loaded sensitivity have been classified STANDING and WALKING
C25_Witness ==
  /\ settings.loaded
  /\ \E i \in 1..Len(done.log) :
       /\ done.log[i].score = MOVEMENT_THRESHOLD_WALKING(settings.detectionSensitivity)
       /\ done.log[i].raw.activity = "STANDING"
  /\ \E i \in 1..Len(done.log) :
       /\ done.log[i].score = MOVEMENT_THRESHOLD_RUNNING(settings.detectionSensitivity)
       /\ done.log[i].raw.activity = "WALKING"

(***************************************************************************)
(* A valid sample before the settings are loaded or while the service is   *)
(* not monitoring.                                                         *)
(***************************************************************************)
\* a step that is a call of predictActivity with a well-formed sample, made
\* without loaded settings or on a service that is not monitoring
ValidCallNotReady ==
  /\ outcome'.op = "predictActivity"
  /\ ~done'.malformed
  /\ ~settings.loaded \/ ~isMonitoring

\* C26: such a call buffers nothing and touches no setting, counter or
\* history; it leaves the published name at IDLE if the service is not
\* monitoring and at CALIBRATING with confidence 0.5 if it is, and it
\* notifies the listeners if and only if the published name changes
C26_NotReadyPublishesNameOnly ==
  [][ValidCallNotReady =>
       /\ UNCHANGED harVars
       /\ latestActivityState'.name = IF isMonitoring THEN "CALIBRATING" ELSE "IDLE"
       /\ isMonitoring => latestActivityState'.confidence = 50
       /\ outcome'.published <=> latestActivityState'.name # latestActivityState.name
       /\ ~outcome'.published
          => UNCHANGED latestActivityState /\ outcome'.notified = <<>>
       /\ outcome'.published => outcome'.notified = CalledListeners(listeners)]_vars

\* a sample has reached a monitoring service without settings twice: the
\* first call has published CALIBRATING, the second has notified nobody
C26_Witness ==
  /\ outcome.op = "predictActivity"
  /\ ~done.malformed
  /\ ~settings.loaded
  /\ isMonitoring
  /\ listeners # <<>>
  /\ done.samples = 2
  /\ ~outcome.published
  /\ latestActivityState.name = "CALIBRATING"

(***************************************************************************)
(* Settings without a stored sensitivity.                                  *)
(***************************************************************************)
\* C27: when the settings were loaded without a stored sensitivity, every
\* tick is classified as at sensitivity 0.5, with the thresholds 0.65, 2.6,
\* 9.6 and 23.0: a score above the walking or the running threshold is
\* WALKING or RUNNING
C27_NoStoredSensitivityMeansMedium ==
  (settings.loaded /\ settings.detectionSensitivity = NoSensitivity)
    => \A i \in 1..Len(done.log) :
         done.log[i].raw.activity = StepActivity(done.log[i].score, 5)

(***************************************************************************)
(* The sample buffer and the movement history as bounded queues.           *)
(***************************************************************************)
\* the last n items of a queue, all of them if there are fewer
MostRecent(queue, n) ==
  IF Len(queue) > n THEN SubSeq(queue, Len(queue) - n + 1, Len(queue)) ELSE queue

\* a step in which the service accepts the sample of the feed
AcceptStep == done'.accepted = done.accepted + 1

\* C28: the buffer never holds more than 25 samples and movementHistory
\* never more than 100 scores; accepting a sample leaves the 25 most recent
\* accepted samples in the buffer, in arrival order, and a tick leaves the 100
\* most recent scores in the history, in arrival order; a tick happens only
\* with a buffer of exactly 25 samples, whose score it appends
C28_BufferAndHistoryAreBoundedQueues ==
  [][/\ Len(sensorDataBuffer') <= SENSOR_DATA_BUFFER_SIZE
     /\ Len(movementHistory') <= MOVEMENT_HISTORY_SIZE
     /\ AcceptStep
        => sensorDataBuffer' = MostRecent(Append(sensorDataBuffer, FeedSample),
                                          SENSOR_DATA_BUFFER_SIZE)
     /\ TickStep
        => /\ Len(sensorDataBuffer') = SENSOR_DATA_BUFFER_SIZE
           /\ movementHistory'
                = MostRecent(Append(movementHistory, TotalMovement(sensorDataBuffer')),
                             MOVEMENT_HISTORY_SIZE)
     /\ ~TickStep => movementHistory' = movementHistory]_vars

\* the history is full, scores have been evicted from it and from the
\* buffer, and the oldest score left differs from the newest
C28_Witness ==
  /\ done.ticks > MOVEMENT_HISTORY_SIZE
  /\ Len(movementHistory) = MOVEMENT_HISTORY_SIZE
  /\ Len(sensorDataBuffer) = SENSOR_DATA_BUFFER_SIZE
  /\ movementHistory[1] # movementHistory[MOVEMENT_HISTORY_SIZE]

(***************************************************************************)
(* The movement score of a window, from the definition of the population   *)
(* variance as the mean squared difference of the pairs: for n values x,   *)
(* n^2 * variance(x) is the sum of (x_i - x_j)^2 over the pairs i < j.     *)
(***************************************************************************)
PairwiseSquares(x) ==
  SumSeq([i \in 1..Len(x) |->
            SumSeq([j \in 1..Len(x) |->
                      IF i < j THEN (x[i] - x[j]) * (x[i] - x[j]) ELSE 0])])

\* n * |m_i - mean(m)| for the accelerometer magnitudes m of a window
GravityCorrected(buffer) ==
  LET m == [i \in 1..Len(buffer) |->
              Sqrt(buffer[i].ax.v * buffer[i].ax.v + buffer[i].ay.v * buffer[i].ay.v
                     + buffer[i].az.v * buffer[i].az.v)]
  IN  [i \in 1..Len(m) |-> Abs(Len(m) * m[i] - SumSeq(m))]
GyroscopeMagnitudes(buffer) ==
  [i \in 1..Len(buffer) |->
     Sqrt(buffer[i].gx.v * buffer[i].gx.v + buffer[i].gy.v * buffer[i].gy.v
            + buffer[i].gz.v * buffer[i].gz.v)]

\* for a window of 25 samples, in units of 1/625000:
\* accelVariance = PairwiseSquares(GravityCorrected) / 25^4 and
\* gyroVariance = PairwiseSquares(GyroscopeMagnitudes) / 25^2
AccelVarianceTimes(weight, buffer) ==
  (weight * 8 * PairwiseSquares(GravityCorrected(buffer))) \div 5
GyroVarianceTimes(weight, buffer) ==
  weight * 1000 * PairwiseSquares(GyroscopeMagnitudes(buffer))

\* C29 as stated: the score that a tick appends to movementHistory and
\* compares with the thresholds is accelVariance * 0.15 + gyroVariance * 0.85
C29_ScoreIsNormalisedWeightedSum ==
  [][TickStep
     => 100 * movementHistory'[Len(movementHistory')]
          = AccelVarianceTimes(15, sensorDataBuffer')
              + GyroVarianceTimes(85, sensorDataBuffer')]_vars

\* C29 amended: the score that a tick appends to movementHistory is
\* accelVariance * 15 + gyroVariance * 85, the variances being the population
\* variances of the gravity-corrected accelerometer magnitudes and of the
\* gyroscope magnitudes of the window, and the activity of the tick is the
\* bracket of this score between the thresholds
C29_ScoreIsWeightedSum ==
  [][TickStep
     => /\ movementHistory'[Len(movementHistory')]
             = AccelVarianceTimes(15, sensorDataBuffer')
                 + GyroVarianceTimes(85, sensorDataBuffer')
        /\ settings.detectionSensitivity # NoSensitivity
           => lastActivity' = StepActivity(movementHistory'[Len(movementHistory')],
                                          settings.detectionSensitivity)]_vars

\* a tick has appended the score 17.4435 of a window with one jolt of 2 on
\* the gyroscope and 3 on the accelerometer, and published it as WALKING
C29_Witness ==
  /\ movementHistory # <<>>
  /\ feed.kind = <<2, 3>>
  /\ movementHistory[Len(movementHistory)] > Score(17443)
  /\ movementHistory[Len(movementHistory)] < Score(17444)
  /\ latestActivityState.name = "WALKING"

(***************************************************************************)
(* The broadcast of a tick during which a listener calls stop().           *)
(***************************************************************************)
\* the snapshots that listener l was called with during the last tick
ReceivedBy(l) ==
  {outcome.calls[c].with : c \in {d \in 1..Len(outcome.calls) : outcome.calls[d].to = l}}

\* C30: every snapshot that a subscribed listener was called with during a
\* tick has been delivered to every subscribed listener, also when a listener
\* has called stop() from its callback
C30_EverySnapshotReachesEveryListener ==
  (outcome.op = "predictActivity" /\ outcome.published /\ "calls" \in DOMAIN outcome)
    => \A i, j \in 1..Len(listeners) :
         ReceivedBy(listeners[i]) = ReceivedBy(listeners[j])

\* what holds: a tick during which no listener calls stop() calls every
\* listener once, in the order of subscription, with the snapshot that is
\* then published
TickWithoutStopReachesEveryListener ==
  (/\ outcome.op = "predictActivity"
   /\ outcome.published
   /\ "calls" \in DOMAIN outcome
   /\ \A c \in 1..Len(outcome.calls) : ~StopsOn(outcome.calls[c].to, outcome.calls[c].with))
    => outcome.calls
         = [i \in 1..Len(listeners) |-> [to |-> listeners[i], with |-> latestActivityState]]

(***************************************************************************)
(* Subscriptions of activity listeners and their unsubscribe functions.    *)
(***************************************************************************)
\* the subscriptions made with callback l whose unsubscribe function has not
\* been called, and the number of calls of l by the last operation
LiveSubscriptionsOf(l) ==
  {k \in SubscriptionsOf(l) : done.subscriptions[k].unsubscribed = 0}
TimesNotified(l) ==
  Cardinality({c \in 1..Len(outcome.notified) : outcome.notified[c] = l})
EveryLiveSubscriptionNotified ==
  outcome.published
    => \A l \in SubscriptionCallbacks :
         TimesNotified(l) = Cardinality(LiveSubscriptionsOf(l))

\* C31: a broadcast calls the callback of every subscription whose
\* unsubscribe function has not been called, once for each such subscription
\* and also when another subscription of the same callback was unsubscribed,
\* and calls no callback of a subscription that was unsubscribed
C31_UnsubscribeEndsOneSubscription ==
  EveryLiveSubscriptionNotified

\* what holds: the same while no callback has been subscribed twice
UnsubscribeEndsSubscriptionOfDistinctCallbacks ==
  (\A l \in SubscriptionCallbacks : Cardinality(SubscriptionsOf(l)) <= 1)
    => EveryLiveSubscriptionNotified

(***************************************************************************)
(* The published snapshot before the window has filled.                    *)
(***************************************************************************)
\* the published snapshot is active and fewer than 25 samples have been
\* accepted since the service was last stopped
ActiveBeforeWindowFull ==
  latestActivityState.isProtectionActive /\ done.accepted < SENSOR_DATA_BUFFER_SIZE

\* C32: whenever the published snapshot is active and fewer than 25 samples
\* have been accepted since start(), the published name is CALIBRATING
C32_ActiveSnapshotStartsCalibrating ==
  ActiveBeforeWindowFull => latestActivityState.name = "CALIBRATING"

\* what holds: the same from the first valid sample that reaches the
\* started service on
CalibratingFromFirstSample ==
  (/\ ActiveBeforeWindowFull
   /\ outcome.op = "predictActivity"
   /\ ~done.malformed)
    => latestActivityState.name = "CALIBRATING"

(***************************************************************************)
(* The frame of a settings refresh.                                        *)
(***************************************************************************)
\* a step in which _refreshSettings completes, called by the constructor or
\* by its timer
RefreshStep == outcome'.op \in {"settings", "_refreshSettings"}

\* C33: a settings refresh leaves the sample buffer, movementHistory,
\* lastActivity, activityChangeCount, the anomaly counters, the monitoring
\* flag, the subscriptions and the published snapshot as they are, and calls
\* no listener: of the service's state it changes the settings at most
C33_RefreshChangesSettingsOnly ==
  [][RefreshStep
     => /\ UNCHANGED <<latestActivityState, sensorDataBuffer, movementHistory,
                       lastActivity, activityChangeCount, highMovementDuration,
                       consecutiveStillReadings, lastSuddenStopTime, walkingSessionActive,
                       isMonitoring, sensorUnsubscribe, listeners, sensorListeners,
                       pendingSubscriptions>>
        /\ ~outcome'.published
        /\ outcome'.notified = <<>>]_vars

\* the timer's refresh has completed in a session that has loaded a
\* sensitivity at construction and has published RUNNING since
C33_Witness ==
  /\ outcome.op = "_refreshSettings"
  /\ settings.loaded
  /\ settings.detectionSensitivity = 5
  /\ movementHistory # <<>>
  /\ lastActivity = "RUNNING"
  /\ highMovementDuration > 0

(***************************************************************************)
(* The walking session and the counted high-movement ticks.                *)
(***************************************************************************)
\* C34: walkingSessionActive is true exactly when highMovementDuration
\* exceeds 30
C34_SessionActiveIffDurationAbove30 ==
  walkingSessionActive <=> highMovementDuration > WALKING_SESSION_TICKS

\* the tick that has brought the duration to 31 has set the flag
C34_Witness ==
  /\ walkingSessionActive
  /\ highMovementDuration = WALKING_SESSION_TICKS + 1
  /\ latestActivityState.name \in {"WALKING", "RUNNING"}
====
